---- MODULE Spec2Model ----
(***************************************************************************)
(* A model of the gopedia ingestion core:                                  *)
(*   - IngestionService (src/src/services/ingestion_service.py): the       *)
(*     concurrent chunk annotation pipeline behind ingest_document;        *)
(*   - SeedRepository (src/src/infrastructure/repositories/                *)
(*     seed_repository.py): get-or-create of SysDict and BlobStore rows;   *)
(*   - GitHubSeedService (src/src/services/github_seed_service.py): the    *)
(*     seeding run that creates origins, revisions and the current-        *)
(*     revision pointer.                                                   *)
(* Every await of the Python code is a point where other tasks may run, so *)
(* one action of the model is the code between two awaits.                 *)
(***************************************************************************)
EXTENDS Integers, Sequences, FiniteSets, TLC

\* ------------------------------------------------------------------ bounds
MaxChunks == 3        \* longest raw text, in segments
MaxCalls == 2         \* ingest_document calls in one behaviour
MaxConcurrency == 2   \* largest embed_cfg.max_concurrency tried
NumSessions == 2      \* database sessions (requests) running side by side
MaxOps == 4           \* get-or-create calls made in one behaviour
MaxFetches == 7       \* requests GitHub answers in one behaviour
MaxQueries == 1       \* find_graph_neighbors calls made in one behaviour
MaxDepth == 2         \* largest `depth` handed to find_graph_neighbors
MaxLines == 3         \* lines of the longest content handed to split_into_chunks
MaxScans == 2         \* GitHubService.scan calls made
MaxPublishes == 2     \* OutlineService.publish_page calls made

VARIABLES
    ing,        \* the ingest_document call in progress (its locals)
    tasks,      \* the chunk tasks handed to asyncio.gather, in list order
    semaphore,  \* free permits of the asyncio.Semaphore of this call
    gather,     \* the first exception asyncio.gather has seen, "" if none
    session,    \* the ChunkNodes staged in the AsyncSession (add_all), in order
    ncalls,     \* number of ingest_document calls started
    calls_left, \* ingest_document calls the caller will still make
    late        \* history: some task finished before a task of lower ord

VARIABLES
    committed,  \* the committed rows of each table
    pending,    \* per database session: rows flushed in its open transaction
    next_id,    \* per id sequence and session: values drawn so far, plus one
    sess,       \* per database session: the repository call in progress
    nops,       \* repository calls started so far, over all sessions
    seed,       \* per database session: the seed_repository run using it
    nfetch      \* requests GitHub has answered so far, over all runs

VARIABLES
    split,         \* the split_into_chunks call made: its arguments and result
    anchors,       \* the committed rows of the anchors table
    virtual_pages, \* the committed rows of the virtual_pages table
    scan,          \* the GitHubService.scan call: its process_item tasks and
                   \* the AsyncSession they share
    outline        \* the publish_page call in progress and the documents
                   \* the Outline API has created

ingVars == <<ing, tasks, semaphore, gather, session, ncalls, calls_left, late>>

storeVars == <<committed, pending, next_id, sess, nops, seed, nfetch>>

pageVars == <<split, anchors, virtual_pages, scan, outline>>

vars == <<ing, tasks, semaphore, gather, session, ncalls, calls_left, late,
          committed, pending, next_id, sess, nops, seed, nfetch, split,
          anchors, virtual_pages, scan, outline>>

\* --------------------------------------------------------------- helpers
RECURSIVE Sha256Hex(_)
\* _sha256_hex: a digest of the text alone. Texts are sequences of segment
\* ids 1..2; the digest is their base-3 numeral, injective like SHA-256 is
\* taken to be.
Sha256Hex(text) ==
    IF text = <<>> THEN 0
    ELSE 3 * Sha256Hex(SubSeq(text, 1, Len(text) - 1)) + text[Len(text)]

\* mock_chunker: one chunk holding the whole text, ord 0.
mock_chunker(text) ==
    << [content |-> text, chunk_type |-> "mock", ord |-> 0] >>

\* langchain_chunker: enumerate(splitter.split_text(text)); the splitter's
\* pieces are the text's segments, and the empty text has none.
langchain_chunker(text) ==
    [i \in 1..Len(text) |->
        [content |-> <<text[i]>>, chunk_type |-> "text", ord |-> i - 1]]

Chunker(name, text) ==
    IF name = "mock_chunker" THEN mock_chunker(text) ELSE langchain_chunker(text)

\* The revisions ingest_document may be handed are 1 and 2. Revision 2
\* carries a macro summary in its meta_diff, revision 1 does not.
RevisionMacroSummary(revision) == IF revision = 2 THEN "stored" ELSE ""

\* The length of a vector the embedder returns that is not the target's.
WrongDimension == 1

NoSummary == [of |-> <<>>, ctx |-> ""]

\* Summarizer.summarize of the echoing summarizer: a value of its inputs.
Summarize(text, context) == [of |-> text, ctx |-> context]

\* No call in progress. `macro_calls` is history: the calls this
\* ingest_document call has made to the macro summarizer.
Idle == [pc |-> "idle", raw_text |-> <<>>, chunker |-> "", revision |-> 0,
         chunks |-> <<>>, macro_summary |-> "", macro_calls |-> 0,
         max_concurrency |-> 0, rate_limit_per_sec |-> 0, target_dimension |-> 0,
         error |-> "", result |-> <<>>]

\* An embedder input that is the chunk content alone.
TextForEmbeddingContentOnly(macro_summary, micro_summary, content) ==
    <<"", [of |-> <<>>, ctx |-> ""], content>>

\* The composite text handed to the embedder:
\* f"{macro_summary}\n\n{micro_summary}\n\n{chunk.content}".
TextForEmbedding(macro_summary, micro_summary, content) ==
    <<macro_summary, micro_summary, content>>

\* The coroutine _annotate_single_chunk(chunk, macro_summary, ...) before it
\* has run. `summarize_calls`, `embed_calls` and `slept` are history: the
\* calls the task has issued and whether it has paused.
NewTask(chunk, macro_summary) ==
    [pc |-> "acquire", chunk |-> chunk, macro_summary |-> macro_summary,
     micro_summary |-> NoSummary, text_for_embedding |-> <<"", NoSummary, <<>>>>,
     dimensions |-> -1, embedding |-> -1, summarize_calls |-> 0,
     embed_calls |-> 0, slept |-> FALSE, error |-> ""]

Finished(t) == tasks[t].pc \in {"done", "failed"}

\* Inside `async with semaphore`: admitted and not yet released.
InGate(t) == tasks[t].pc \in {"sleep", "summarize", "embed"}

\* ------------------------------------------------- the annotation pipeline
\* A gate that admits every task.
SemaphoreFreeAlways == TRUE

\* asyncio.Semaphore.acquire returns without waiting iff a permit is free.
SemaphoreFree == semaphore > 0

RECURSIVE SortedByOrdDescending(_)
\* The same sort with reverse=True.
SortedByOrdDescending(results) ==
    IF results = <<>> THEN <<>>
    ELSE LET rest == SortedByOrdDescending(Tail(results))
             RECURSIVE Ins(_, _)
             Ins(item, s) ==
                 IF s = <<>> THEN <<item>>
                 ELSE IF item.ord > s[1].ord THEN <<item>> \o s
                 ELSE <<s[1]>> \o Ins(item, Tail(s))
         IN  Ins(results[1], rest)

\* sorted(results, key=lambda c: c.ord): ascending and stable, so the place
\* of an item is the number of items of lower ord, or of the same ord and
\* earlier in the list, plus one.
SortedByOrd(results) ==
    LET Before(i) == {j \in DOMAIN results :
                         \/ results[j].ord < results[i].ord
                         \/ results[j].ord = results[i].ord /\ j < i}
    IN  [k \in DOMAIN results |->
            results[CHOOSE i \in DOMAIN results : Cardinality(Before(i)) = k - 1]]

\* The ChunkAnnotated a task returns.
ChunkAnnotated(t) ==
    [content_summary |-> tasks[t].micro_summary,
     embedding |-> tasks[t].embedding,
     chunk_type |-> tasks[t].chunk.chunk_type,
     ord |-> tasks[t].chunk.ord,
     chunk_hash |-> Sha256Hex(tasks[t].chunk.content)]

RECURSIVE ResultsOf(_)
\* The results of the done tasks among the first n, in task order.
ResultsOf(n) ==
    IF n = 0 THEN <<>>
    ELSE IF tasks[n].pc = "done" THEN Append(ResultsOf(n - 1), ChunkAnnotated(n))
    ELSE ResultsOf(n - 1)

\* gather(..., return_exceptions=True): waits for every task and hands over
\* a list whatever the tasks did.
GatherOutcomeReturnExceptions ==
    IF \A t \in DOMAIN tasks : Finished(t) THEN "results" ELSE "pending"

\* What `await asyncio.gather(*tasks)` has for its awaiter: the first
\* exception as soon as one task raised, the list of results (in the order of
\* the tasks, not of completion) once every task returned.
GatherOutcome ==
    IF gather # "" THEN "exception"
    ELSE IF \A t \in DOMAIN tasks : tasks[t].pc = "done" THEN "results"
    ELSE "pending"

\* No length check at all.
DimensionMismatchNever(target_dimension, embedding) == FALSE

\* The length check of _annotate_single_chunk: skipped when target_dimension
\* is falsy (0 or None).
DimensionMismatch(target_dimension, embedding) ==
    target_dimension # 0 /\ embedding # target_dimension

\* _annotate_chunks_concurrently up to its await: a fresh semaphore and one
\* task per chunk.
AnnotateChunksConcurrently(call, macro_summary) ==
    /\ ing' = [call EXCEPT !.pc = "annotate", !.macro_summary = macro_summary]
    /\ tasks' = [i \in 1..Len(call.chunks) |->
                     NewTask(call.chunks[i], macro_summary)]
    /\ semaphore' = call.max_concurrency
    /\ gather' = ""
    /\ late' = FALSE

\* A pipeline that asks the macro summarizer whatever the revision holds.
NeedsMacroSummaryAlways(macro_summary) == TRUE

\* `if not macro_summary`: None and the empty string both count as none.
NeedsMacroSummary(macro_summary) == macro_summary = ""

\* An ingest_document that creates the chunk tasks at once and lets them run
\* while the macro summarizer is still out.
IngestDocumentEager(raw_text, revision, chunker, max_concurrency, rate, dim) ==
    /\ ing.pc \in {"idle", "returned", "raised"}
    /\ \A t \in DOMAIN tasks : Finished(t)
    /\ calls_left > 0
    /\ calls_left' = calls_left - 1
    /\ ncalls' = ncalls + 1
    /\ UNCHANGED session
    /\ UNCHANGED storeVars
    /\ UNCHANGED pageVars
    /\ LET call == [Idle EXCEPT !.raw_text = raw_text,
                                !.chunker = chunker,
                                !.revision = revision,
                                !.chunks = Chunker(chunker, raw_text),
                                !.max_concurrency = max_concurrency,
                                !.rate_limit_per_sec = rate,
                                !.target_dimension = dim]
           macro_summary == RevisionMacroSummary(revision)
       IN  /\ tasks' = [i \in 1..Len(call.chunks) |->
                           NewTask(call.chunks[i], macro_summary)]
           /\ semaphore' = call.max_concurrency
           /\ gather' = ""
           /\ late' = FALSE
           /\ ing' = [call EXCEPT
                         !.pc = IF macro_summary = "" THEN "macro" ELSE "annotate",
                         !.macro_summary = macro_summary]

\* ingest_document from its call to its first await.
IngestDocument(raw_text, revision, chunker, max_concurrency, rate, dim) ==
    /\ ing.pc \in {"idle", "returned", "raised"}
    /\ \A t \in DOMAIN tasks : Finished(t)
    /\ calls_left > 0
    /\ calls_left' = calls_left - 1
    /\ ncalls' = ncalls + 1
    /\ UNCHANGED session
    /\ UNCHANGED storeVars
    /\ UNCHANGED pageVars
    /\ LET call == [Idle EXCEPT !.raw_text = raw_text,
                                !.chunker = chunker,
                                !.revision = revision,
                                !.chunks = Chunker(chunker, raw_text),
                                !.max_concurrency = max_concurrency,
                                !.rate_limit_per_sec = rate,
                                !.target_dimension = dim]
           macro_summary == RevisionMacroSummary(revision)
       IN  IF NeedsMacroSummary(macro_summary)
           THEN /\ ing' = [call EXCEPT !.pc = "macro", !.macro_calls = 1]
                /\ tasks' = <<>>
                /\ semaphore' = 0
                /\ gather' = ""
                /\ late' = FALSE
           ELSE AnnotateChunksConcurrently(call, macro_summary)

\* The macro summarizer returns.
MacroSummarizeReturns ==
    /\ ing.pc = "macro"
    /\ AnnotateChunksConcurrently(ing, "computed")
    /\ UNCHANGED <<session, ncalls, calls_left>>
    /\ UNCHANGED storeVars
    /\ UNCHANGED pageVars

\* The macro summarizer raises: ingest_document raises.
MacroSummarizeRaises ==
    /\ ing.pc = "macro"
    /\ ing' = [ing EXCEPT !.pc = "raised", !.error = "UpstreamCallFailure"]
    /\ UNCHANGED <<tasks, semaphore, gather, session, ncalls, calls_left, late>>
    /\ UNCHANGED storeVars
    /\ UNCHANGED pageVars

\* An admission that never pauses.
AcquireNoPause(t) ==
    /\ tasks[t].pc = "acquire"
    /\ SemaphoreFree
    /\ semaphore' = semaphore - 1
    /\ tasks' = [tasks EXCEPT ![t].pc = "summarize", ![t].summarize_calls = @ + 1]
    /\ UNCHANGED <<ing, gather, session, ncalls, calls_left, late>>
    /\ UNCHANGED storeVars
    /\ UNCHANGED pageVars

\* `async with semaphore`: the task is admitted; it sleeps when a rate limit
\* is configured and calls the micro summarizer otherwise.
Acquire(t) ==
    /\ tasks[t].pc = "acquire"
    /\ SemaphoreFree
    /\ semaphore' = semaphore - 1
    /\ tasks' = IF ing.rate_limit_per_sec # 0
                THEN [tasks EXCEPT ![t].pc = "sleep"]
                ELSE [tasks EXCEPT ![t].pc = "summarize",
                                   ![t].summarize_calls = @ + 1]
    /\ UNCHANGED <<ing, gather, session, ncalls, calls_left, late>>
    /\ UNCHANGED storeVars
    /\ UNCHANGED pageVars

\* asyncio.sleep(1 / rate_limit_per_sec) is over: the micro summarizer is
\* called.
SleepDone(t) ==
    /\ tasks[t].pc = "sleep"
    /\ tasks' = [tasks EXCEPT ![t].pc = "summarize", ![t].slept = TRUE,
                              ![t].summarize_calls = @ + 1]
    /\ UNCHANGED <<ing, semaphore, gather, session, ncalls, calls_left, late>>
    /\ UNCHANGED storeVars
    /\ UNCHANGED pageVars

\* A task that raises between acquire and release outside of `async with`:
\* its permit is never given back.
TaskRaisesKeepsPermit(t, error) ==
    /\ tasks' = [tasks EXCEPT ![t].pc = "failed", ![t].error = error]
    /\ semaphore' = semaphore
    /\ gather' = IF gather = "" THEN error ELSE gather
    /\ UNCHANGED <<ing, session, ncalls, calls_left, late>>
    /\ UNCHANGED storeVars
    /\ UNCHANGED pageVars

\* A gather that cancels the tasks still outstanding when one raises.
TaskRaisesCancelsOthers(t, error) ==
    /\ tasks' = [u \in DOMAIN tasks |->
                    IF u = t THEN [tasks[u] EXCEPT !.pc = "failed", !.error = error]
                    ELSE IF Finished(u) THEN tasks[u]
                    ELSE [tasks[u] EXCEPT !.pc = "failed", !.error = "CancelledError"]]
    /\ semaphore' = ing.max_concurrency
    /\ gather' = IF gather = "" THEN error ELSE gather
    /\ UNCHANGED <<ing, session, ncalls, calls_left, late>>
    /\ UNCHANGED storeVars
    /\ UNCHANGED pageVars

\* The task leaves the `async with` block by an exception.
TaskRaises(t, error) ==
    /\ tasks' = [tasks EXCEPT ![t].pc = "failed", ![t].error = error]
    /\ semaphore' = semaphore + 1
    /\ gather' = IF gather = "" THEN error ELSE gather
    /\ UNCHANGED <<ing, session, ncalls, calls_left, late>>
    /\ UNCHANGED storeVars
    /\ UNCHANGED pageVars

\* The micro summarizer returns; the embedder is called.
SummarizeReturns(t) ==
    /\ tasks[t].pc = "summarize"
    /\ LET micro_summary ==
               Summarize(tasks[t].chunk.content, tasks[t].macro_summary)
       IN  tasks' = [tasks EXCEPT
                        ![t].pc = "embed",
                        ![t].micro_summary = micro_summary,
                        ![t].text_for_embedding =
                            TextForEmbedding(tasks[t].macro_summary, micro_summary,
                                             tasks[t].chunk.content),
                        ![t].dimensions = ing.target_dimension,
                        ![t].embed_calls = tasks[t].embed_calls + 1]
    /\ UNCHANGED <<ing, semaphore, gather, session, ncalls, calls_left, late>>
    /\ UNCHANGED storeVars
    /\ UNCHANGED pageVars

\* max_retries as EmbeddingConfig has it.
max_retries == 2

\* A task that calls the micro summarizer again when it raises, up to
\* max_retries times.
SummarizeRaisesRetries(t) ==
    /\ tasks[t].pc = "summarize"
    /\ IF tasks[t].summarize_calls <= max_retries
       THEN /\ tasks' = [tasks EXCEPT ![t].summarize_calls = @ + 1]
            /\ UNCHANGED <<ing, semaphore, gather, session, ncalls, calls_left, late>>
            /\ UNCHANGED storeVars
            /\ UNCHANGED pageVars
       ELSE TaskRaises(t, "UpstreamCallFailure")

\* The micro summarizer raises: the exception leaves the task.
SummarizeRaises(t) ==
    /\ tasks[t].pc = "summarize"
    /\ TaskRaises(t, "UpstreamCallFailure")

\* A task that adds its own ChunkNode to the session as soon as its embedding
\* is there.
EmbedReturnsAndStages(t, embedding) ==
    /\ tasks[t].pc = "embed"
    /\ tasks' = [tasks EXCEPT ![t].pc = "done", ![t].embedding = embedding]
    /\ session' = Append(session,
                     [revision_id |-> ing.revision,
                      chunk_hash |-> Sha256Hex(tasks[t].chunk.content),
                      chunk_type |-> tasks[t].chunk.chunk_type,
                      content_summary |-> tasks[t].micro_summary,
                      embedding |-> embedding,
                      ord |-> tasks[t].chunk.ord,
                      call |-> ncalls])
    /\ semaphore' = semaphore + 1
    /\ UNCHANGED <<ing, gather, ncalls, calls_left, late>>
    /\ UNCHANGED storeVars
    /\ UNCHANGED pageVars

\* The embedder returns a vector of the given length; the hash is taken, the
\* length is checked and the task returns or raises.
EmbedReturns(t, embedding) ==
    /\ tasks[t].pc = "embed"
    /\ IF DimensionMismatch(ing.target_dimension, embedding)
       THEN /\ tasks' = [tasks EXCEPT ![t].pc = "failed",
                                      ![t].embedding = embedding,
                                      ![t].error = "EmbeddingDimensionMismatch"]
            /\ gather' = IF gather = "" THEN "EmbeddingDimensionMismatch" ELSE gather
            /\ late' = late
       ELSE /\ tasks' = [tasks EXCEPT ![t].pc = "done", ![t].embedding = embedding]
            /\ gather' = gather
            /\ late' = (late \/ \E u \in DOMAIN tasks :
                                   /\ tasks[u].chunk.ord < tasks[t].chunk.ord
                                   /\ ~Finished(u))
    /\ semaphore' = semaphore + 1
    /\ UNCHANGED <<ing, session, ncalls, calls_left>>
    /\ UNCHANGED storeVars
    /\ UNCHANGED pageVars

EmbedRaises(t) ==
    /\ tasks[t].pc = "embed"
    /\ TaskRaises(t, "UpstreamCallFailure")

\* ChunkNodes built without `ord=item.ord`: the column's default, 0.
ChunkNodesDefaultOrd(annotated) ==
    [i \in 1..Len(annotated) |->
        [revision_id |-> ing.revision,
         chunk_hash |-> annotated[i].chunk_hash,
         chunk_type |-> annotated[i].chunk_type,
         content_summary |-> annotated[i].content_summary,
         embedding |-> annotated[i].embedding,
         ord |-> 0,
         call |-> ncalls]]

\* The ChunkNodes ingest_document builds from the annotated list. `call` is
\* history: the number of the ingest_document call that staged the node.
ChunkNodes(annotated) ==
    [i \in 1..Len(annotated) |->
        [revision_id |-> ing.revision,
         chunk_hash |-> annotated[i].chunk_hash,
         chunk_type |-> annotated[i].chunk_type,
         content_summary |-> annotated[i].content_summary,
         embedding |-> annotated[i].embedding,
         ord |-> annotated[i].ord,
         call |-> ncalls]]

\* gather hands over the results: sort, build the nodes, session.add_all.
\* (`annotated` and `chunk_nodes` are bound by \E over a one-element set so
\* that each is computed once.)
AnnotateReturns ==
    /\ ing.pc = "annotate"
    /\ GatherOutcome = "results"
    /\ \E annotated \in {SortedByOrd(ResultsOf(Len(tasks)))} :
       \E chunk_nodes \in {ChunkNodes(annotated)} :
           /\ ing' = [ing EXCEPT !.pc = "returned", !.result = chunk_nodes]
           /\ session' = session \o chunk_nodes
    /\ UNCHANGED <<tasks, semaphore, gather, ncalls, calls_left, late>>
    /\ UNCHANGED storeVars
    /\ UNCHANGED pageVars

\* gather hands over the first exception: it leaves ingest_document.
AnnotateRaises ==
    /\ ing.pc = "annotate"
    /\ GatherOutcome = "exception"
    /\ ing' = [ing EXCEPT !.pc = "raised", !.error = gather]
    /\ UNCHANGED <<tasks, semaphore, gather, session, ncalls, calls_left, late>>
    /\ UNCHANGED storeVars
    /\ UNCHANGED pageVars

\* A step of the call in progress or of one of its tasks.
PipelineStep ==
    \/ MacroSummarizeReturns
    \/ MacroSummarizeRaises
    \/ \E t \in DOMAIN tasks :
          \/ Acquire(t)
          \/ SleepDone(t)
          \/ SummarizeReturns(t)
          \/ SummarizeRaises(t)
          \/ \E embedding \in {ing.target_dimension, WrongDimension} :
                 EmbedReturns(t, embedding)
          \/ EmbedRaises(t)
    \/ AnnotateReturns
    \/ AnnotateRaises

\* No call made yet, an empty session; the caller makes `calls` calls.
\* What the GitHub Contents API lists for the repository: the item of its
\* root and the items of its directory. `dir` is the path the item is listed
\* under. Every file has a size above 0.
Items ==
    {[path |-> "docs", name |-> "docs", type |-> "dir", dir |-> ""],
     [path |-> "docs/README.md", name |-> "README.md", type |-> "file",
      dir |-> "docs"],
     [path |-> "docs/guide.md", name |-> "guide.md", type |-> "file",
      dir |-> "docs"]}

InitIngest(calls) ==
    /\ ing = Idle
    /\ tasks = <<>>
    /\ semaphore = 0
    /\ gather = ""
    /\ session = <<>>
    /\ ncalls = 0
    /\ calls_left = calls
    /\ late = FALSE
    /\ split = [pc |-> "idle", content |-> <<>>, max_chunk_size |-> 0, chunks |-> <<>>]
    /\ anchors = {}
    /\ virtual_pages = {}
    /\ scan = [n |-> 0, status |-> "idle",
               task |-> [i \in Items |->
                            [pc |-> "none", sha |-> 0, anchor_id |-> <<0, "">>]],
               new |-> {}, dirty |-> {}]
    /\ outline = [n |-> 0, pc |-> "idle", page_id |-> <<0, "">>, doc_id |-> 0,
                  ret |-> 0, error |-> "", docs |-> {}]

NextIngest ==
    \* The raw text of k segments: segment ids alternate 1, 2, 1, ...
    \/ \E raw_text \in {[i \in 1..k |-> ((i - 1) % 2) + 1] :
                            k \in 0..MaxChunks},
          revision \in {1, 2},
          chunker \in {"mock_chunker", "langchain_chunker"},
          max_concurrency \in 1..MaxConcurrency,
          rate \in {0, 5},          \* rate_limit_per_sec; 0 stands for None
          dim \in {0, 2} :          \* target_dimension; 0 is the falsy value
                                    \* that switches the length check off
          IngestDocument(raw_text, revision, chunker, max_concurrency, rate, dim)
    \/ MacroSummarizeReturns
    \/ MacroSummarizeRaises
    \/ \E t \in DOMAIN tasks : Acquire(t)
    \/ \E t \in DOMAIN tasks : SleepDone(t)
    \/ \E t \in DOMAIN tasks : SummarizeReturns(t)
    \/ \E t \in DOMAIN tasks : SummarizeRaises(t)
    \/ \E t \in DOMAIN tasks :
          \E embedding \in {ing.target_dimension, WrongDimension} :
              EmbedReturns(t, embedding)
    \/ \E t \in DOMAIN tasks : EmbedRaises(t)
    \/ AnnotateReturns
    \/ AnnotateRaises


\* ------------------------------------------------ the get-or-create store
Sessions == 1..NumSessions

\* The (category, val) pairs and blob contents the callers ask for.
Tables == {"sys_dict", "blob_store", "origin_data", "revisions", "tree_nodes",
           "knowledge_edges", "chunk_nodes"}

\* The autoincrement sequences of the tables (blob_store and knowledge_edges
\* have none: their counters number the row versions, as history) and the
\* source of uuid4().
Counters == Tables \cup {"uuid4"}

NoRows == [t \in Tables |-> {}]

\* The value session s draws next from sequence c, given the draws `ids` made
\* so far. Ids are only ever compared for equality, and for order among the
\* rows of one transaction, so each session draws from its own residue class
\* (a sequence handing out a block per session): values are unique, grow
\* within a session, and are never handed out again after a rollback.
IdAt(ids, s, c) == (ids[c][s] - 1) * NumSessions + s

NextVal(s, c) == IdAt(next_id, s, c)

\* What a statement of session s sees (READ COMMITTED): the committed rows
\* and the rows of its own open transaction.
Visible(s, table) == committed[table] \cup pending[s][table]

\* UniqueConstraint("category", "val") of SysDict.
SysDictConflict(row, category, val) ==
    row.category = category /\ row.val = val

\* A blob_store table without its key.
BlobConflictNever(row, hash) == FALSE

\* The primary key of BlobStore: its hash.
BlobConflict(row, hash) == row.hash = hash

\* A get-or-create that never looks at what its select returned.
FoundNever(rows) == FALSE

\* `if not obj` / `if not result.scalar_one_or_none()`: the row was found.
Found(rows) == rows # {}

\* predicate_filter: Optional[List[str]]. None and a list are told apart.
NoFilter == [none |-> TRUE, names |-> <<>>]

PredicateFilter(names) == [none |-> FALSE, names |-> names]

\* `entity` is the object the call in progress has added to the session;
\* `linked` is history: the edges the caller has linked and not rolled back;
\* `query` is the last find_graph_neighbors call and what it returned.
Ready == [pc |-> "ready", op |-> "", category |-> "", val |-> "",
          content |-> <<>>, content_type |-> "", ret |-> -1, error |-> "",
          hist |-> {}, again |-> FALSE,
          entity |-> [table |-> "", row |-> [id |-> 0]], linked |-> {},
          query |-> [node_id |-> 0, predicate_filter |-> NoFilter,
                     depth |-> 0, result |-> [e \in {} |-> 0]]]

HistKey(op, category, val, hash) ==
    [op |-> op, category |-> category, val |-> val, hash |-> hash]

\* The key of the call session record c is making.
CallKey(c) ==
    IF c.op = "sys_dict" THEN HistKey("sys_dict", c.category, c.val, -1)
    ELSE HistKey("blob", "", "", Sha256Hex(c.content))

\* History: an earlier call of session s returned a key or hash for this key,
\* and s has not rolled back since.
Known(s, op, category, val, hash) ==
    \E h \in sess[s].hist : h.key = HistKey(op, category, val, hash)

Remember(c, ret) ==
    {h \in c.hist : h.key # CallKey(c)} \cup {[key |-> CallKey(c), ret |-> ret]}

\* get_or_create_sys_dict from its call to the end of its select: the row is
\* returned if there is one, else a new SysDict is added and flush awaited.
GetOrCreateSysDict(s, category, val) ==
    /\ sess[s].pc = "ready"
    /\ nops < MaxOps
    /\ nops' = nops + 1
    /\ LET rows == {r \in Visible(s, "sys_dict") :
                       r.category = category /\ r.val = val}
           call == [sess[s] EXCEPT !.op = "sys_dict", !.category = category,
                                   !.val = val, !.content = <<>>,
                                   !.content_type = "", !.ret = -1,
                                   !.again = Known(s, "sys_dict", category, val, -1)]
       IN  IF Found(rows)
           THEN LET obj == CHOOSE r \in rows : TRUE
                IN  sess' = [sess EXCEPT ![s] =
                        [call EXCEPT !.ret = obj.id, !.hist = Remember(call, obj.id)]]
           ELSE sess' = [sess EXCEPT ![s] = [call EXCEPT !.pc = "flush"]]
    /\ UNCHANGED <<committed, pending, next_id>>
    /\ UNCHANGED <<ingVars, seed, nfetch, pageVars>>

\* create_or_get_blob from its call to the end of its select.
CreateOrGetBlob(s, content, content_type) ==
    /\ sess[s].pc = "ready"
    /\ nops < MaxOps
    /\ nops' = nops + 1
    /\ LET sha256_hash == Sha256Hex(content)
           rows == {r \in Visible(s, "blob_store") : r.hash = sha256_hash}
           call == [sess[s] EXCEPT !.op = "blob", !.category = "", !.val = "",
                                   !.content = content,
                                   !.content_type = content_type, !.ret = -1,
                                   !.again = Known(s, "blob", "", "", sha256_hash)]
       IN  IF Found(rows)
           THEN sess' = [sess EXCEPT ![s] =
                    [call EXCEPT !.ret = sha256_hash,
                                 !.hist = Remember(call, sha256_hash)]]
           ELSE sess' = [sess EXCEPT ![s] = [call EXCEPT !.pc = "flush"]]
    /\ UNCHANGED <<committed, pending, next_id>>
    /\ UNCHANGED <<ingVars, seed, nfetch, pageVars>>

TableOf(s) == IF sess[s].op = "sys_dict" THEN "sys_dict" ELSE "blob_store"

\* Row r stands in the way of the INSERT of session s.
Conflicts(s, r) ==
    IF sess[s].op = "sys_dict"
    THEN SysDictConflict(r, sess[s].category, sess[s].val)
    ELSE BlobConflict(r, Sha256Hex(sess[s].content))

\* The INSERT waits for the open transaction that holds a conflicting row.
Blocked(s) ==
    /\ sess[s].pc = "flush"
    /\ \E t \in Sessions \ {s} : \E r \in pending[t][TableOf(s)] : Conflicts(s, r)

\* session.flush() sends the INSERT and it succeeds: the call returns.
FlushInserts(s) ==
    /\ sess[s].pc = "flush"
    /\ ~\E r \in Visible(s, TableOf(s)) : Conflicts(s, r)
    /\ ~Blocked(s)
    /\ LET row == IF sess[s].op = "sys_dict"
                  THEN [id |-> NextVal(s, "sys_dict"),
                        category |-> sess[s].category, val |-> sess[s].val]
                  ELSE [hash |-> Sha256Hex(sess[s].content),
                        body |-> sess[s].content,
                        content_type |-> sess[s].content_type,
                        ctid |-> NextVal(s, "blob_store")]
       IN  pending' = [pending EXCEPT ![s][TableOf(s)] = @ \cup {row}]
    /\ next_id' = [next_id EXCEPT ![TableOf(s)][s] = @ + 1]
    /\ LET ret == IF sess[s].op = "sys_dict" THEN NextVal(s, "sys_dict")
                  ELSE Sha256Hex(sess[s].content)
       IN  sess' = [sess EXCEPT ![s].pc = "ready", ![s].ret = ret,
                                ![s].hist = Remember(sess[s], ret)]
    /\ UNCHANGED <<committed, nops>>
    /\ UNCHANGED <<ingVars, seed, nfetch, pageVars>>

\* session.flush() raises: the flush rolls the transaction back and the
\* exception leaves the call.
FlushFails(s, error) ==
    /\ pending' = [pending EXCEPT ![s] = NoRows]
    /\ sess' = [sess EXCEPT ![s].pc = "error", ![s].error = error, ![s].hist = {}]
    /\ UNCHANGED <<committed, next_id, nops>>
    /\ UNCHANGED <<ingVars, seed, nfetch, pageVars>>

\* The INSERT meets a row with the same key: IntegrityError.
FlushIntegrityError(s) ==
    /\ sess[s].pc = "flush"
    /\ \E r \in Visible(s, TableOf(s)) : Conflicts(s, r)
    /\ FlushFails(s, "IntegrityError")

\* Two INSERTs wait for each other's transaction: the database aborts one.
FlushDeadlock(s) ==
    /\ Blocked(s)
    /\ \E t \in Sessions \ {s} :
          /\ Blocked(t)
          /\ \E r \in pending[s][TableOf(t)] : Conflicts(t, r)
          /\ \E r \in pending[t][TableOf(s)] : Conflicts(s, r)
    /\ FlushFails(s, "DeadlockDetected")

\* The caller of session s commits.
Commit(s) ==
    /\ sess[s].pc = "ready"
    /\ pending[s] # NoRows
    /\ committed' = [t \in Tables |-> committed[t] \cup pending[s][t]]
    /\ pending' = [pending EXCEPT ![s] = NoRows]
    /\ UNCHANGED <<next_id, sess, nops>>
    /\ UNCHANGED <<ingVars, seed, nfetch, pageVars>>

\* The caller of session s closes it without a commit.
Rollback(s) ==
    /\ sess[s].pc = "ready"
    /\ pending[s] # NoRows
    /\ pending' = [pending EXCEPT ![s] = NoRows]
    /\ sess' = [sess EXCEPT ![s].hist = {}, ![s].linked = {}]
    /\ UNCHANGED <<committed, next_id, nops>>
    /\ UNCHANGED <<ingVars, seed, nfetch, pageVars>>

\* ------------------------------------------------- the GitHub seeding run
\* The SysDict entries seed_repository bootstraps, in call order.
BootstrapPairs ==
    << <<"SOURCE", "GitHub">>,
       <<"DTYPE", "Repository">>, <<"DTYPE", "File">>, <<"DTYPE", "Directory">>,
       <<"PRED", "Contains">>, <<"PRED", "Depends_On">>, <<"PRED", "Related_To">>,
       <<"TAG", "Python">>, <<"TAG", "Markdown">>, <<"TAG", "Config">>,
       <<"EDITOR", "System">> >>

\* `if file_size > 1024 * 1024`: larger files are skipped.
MaxFileSize == 1048576

\* max_chunk_size of split_into_chunks.
max_chunk_size == 1000

\* A file or directory name: os.path.splitext gives its stem and extension.
Name(stem, ext) == [stem |-> stem, ext |-> ext]

\* Items of the tree GitHub returns; a path is the sequence of its names.
Blob(path, size) == [type |-> "blob", path |-> path, size |-> size]

\* Directory items carry no size: file_item.get("size", 0).
Tree(path) == [type |-> "tree", path |-> path, size |-> 0]

\* The file trees get_file_tree hands back: an empty repository; a
\* directory (listed after its subdirectory) with two files that differ in
\* the extension only; a file over 1 MB followed by two small ones; a file
\* listed before its directory, and that before the directory above it.
FileTrees ==
    { <<>>,
      << Tree(<<Name("d", ""), Name("e", "")>>),
         Tree(<<Name("d", "")>>),
         Blob(<<Name("d", ""), Name("a", ".md")>>, 120),
         Blob(<<Name("d", ""), Name("a", ".py")>>, 120) >>,
      << Blob(<<Name("big", ".md")>>, 2097152),
         Blob(<<Name("a", ".md")>>, 120),
         Blob(<<Name("b", ".json")>>, 120) >>,
      << Blob(<<Name("d", ""), Name("e", ""), Name("c", ".md")>>, 120),
         Tree(<<Name("d", ""), Name("e", "")>>),
         Tree(<<Name("d", "")>>) >> }

\* Texts are sequences of lines (content.split('\n')): line 0 is the empty
\* line, 1 a plain line of 400 characters, 2 a line of 700 characters that
\* starts with '#', 3 a plain line of 1500 characters. The empty string is
\* the text <<0>>.
\* len(line)
LineLen(line) ==
    IF line = 0 THEN 0
    ELSE IF line = 1 THEN 400
    ELSE IF line = 2 THEN 700
    ELSE 1500

\* split_path / os.path.split.
split_path(path) ==
    [dir |-> SubSeq(path, 1, Len(path) - 1), filename |-> path[Len(path)]]

\* The sort key is path.count("/"), one less than the number of segments.
RECURSIVE InsertByDepth(_, _)
InsertByDepth(item, sorted) ==
    IF sorted = <<>> THEN <<item>>
    ELSE IF Len(item.path) - 1 < Len(sorted[1].path) - 1 THEN <<item>> \o sorted
    ELSE <<sorted[1]>> \o InsertByDepth(item, Tail(sorted))

\* The directories in the order the file tree lists them.
SortedByDepthAsListed(dirs) == dirs

RECURSIVE SortedByDepth(_)
\* sorted(dirs, key=lambda x: x["path"].count("/")): stable, shallow first.
SortedByDepth(dirs) ==
    IF dirs = <<>> THEN <<>>
    ELSE LET n == Len(dirs)
         IN  InsertByDepth(dirs[n], SortedByDepth(SubSeq(dirs, 1, n - 1)))

\* _get_content_type
GetContentType(ext) ==
    IF ext \in {".md", ".markdown"} THEN "text/markdown"
    ELSE IF ext = ".py" THEN "text/x-python"
    ELSE IF ext = ".json" THEN "application/json"
    ELSE "text/plain"

RECURSIVE SplitLines(_, _, _, _)
\* A loop that closes the chunk in hand with the line that overflows it.
SplitLinesClosingLate(lines, current_chunk, current_size, max_size) ==
    IF lines = <<>>
    THEN IF current_chunk # <<>> THEN <<current_chunk>> ELSE <<>>
    ELSE LET line == Head(lines)
             line_size == LineLen(line)
         IN  IF current_size + line_size > max_size /\ current_chunk # <<>>
             THEN <<Append(current_chunk, line)>>
                  \o SplitLines(Tail(lines), <<>>, 0, max_size)
             ELSE SplitLines(Tail(lines), Append(current_chunk, line),
                             current_size + line_size, max_size)

\* The loop of split_into_chunks over the lines still to read.
SplitLines(lines, current_chunk, current_size, max_size) ==
    IF lines = <<>>
    THEN IF current_chunk # <<>> THEN <<current_chunk>> ELSE <<>>
    ELSE LET line == Head(lines)
             line_size == LineLen(line)
         IN  IF current_size + line_size > max_size /\ current_chunk # <<>>
             THEN <<current_chunk>>
                  \o SplitLines(Tail(lines), <<line>>, line_size, max_size)
             ELSE SplitLines(Tail(lines), Append(current_chunk, line),
                             current_size + line_size, max_size)

\* split_into_chunks(content, max_chunk_size); the callers in the program
\* leave max_chunk_size at its default. A chunk whose text starts with '#' is
\* a HEADER.
split_into_chunks(content, max_size) ==
    LET chunks == SplitLines(content, <<>>, 0, max_size)
    IN  IF chunks # <<>>
        THEN [i \in 1..Len(chunks) |->
                 [content |-> chunks[i],
                  type |-> IF chunks[i] # <<>> /\ chunks[i][1] = 2
                           THEN "HEADER" ELSE "PARAGRAPH"]]
        ELSE << [content |-> content, type |-> "PARAGRAPH"] >>

\* A caller calls split_into_chunks and gets its list.
SplitIntoChunks(content, max_size) ==
    /\ split.pc = "idle"
    /\ split' = [pc |-> "returned", content |-> content,
                 max_chunk_size |-> max_size,
                 chunks |-> split_into_chunks(content, max_size)]
    /\ UNCHANGED <<anchors, virtual_pages, scan, outline>>
    /\ UNCHANGED ingVars
    /\ UNCHANGED storeVars

\* Contents of up to MaxLines lines, the empty string included, and sizes no
\* line fits in, one line fits in, two lines fit in, and every content fits
\* in, the default among them.
NextChunks ==
    \E n \in 1..MaxLines :
        \E content \in [1..n -> 0..3],
           max_size \in {-1, 0, 400, max_chunk_size, 1100, 1500 * MaxLines} :
            SplitIntoChunks(content, max_size)

\* An object added to the session and not flushed yet.
Obj(table, row) == [table |-> table, row |-> row]

\* curr_rev_id 0 is NULL.
OriginDataObj(urn, src_sys_id, dtype_id, path) ==
    Obj("origin_data", [id |-> 0, urn |-> urn, src_sys_id |-> src_sys_id,
                        dtype_id |-> dtype_id, path |-> path, curr_rev_id |-> 0])

\* parent_id 0 and data_id 0 are NULL.
TreeNodeObj(parent_id, data_id, view_type, name, ord) ==
    Obj("tree_nodes", [id |-> 0, parent_id |-> parent_id, data_id |-> data_id,
                       view_type |-> view_type, name |-> name,
                       \* slugify: the name without its extension, or "untitled"
                       slug |-> (IF name.stem = "" THEN "untitled"
                                 ELSE name.stem),
                       ord |-> ord])

BlobStoreObj(content, content_type) ==
    Obj("blob_store", [hash |-> Sha256Hex(content), body |-> content,
                       content_type |-> content_type, ctid |-> 0])

RevisionObj(data_id, summary_hash, tags, editor_id) ==
    Obj("revisions", [id |-> 0, data_id |-> data_id, summary_hash |-> summary_hash,
                      tags |-> tags, editor_id |-> editor_id])

ChunkNodeObj(revision_id, chunk_data, idx) ==
    Obj("chunk_nodes", [id |-> 0, revision_id |-> revision_id,
                        chunk_hash |-> Sha256Hex(chunk_data.content),
                        chunk_type |-> chunk_data.type, ord |-> idx])

KnowledgeEdgeObj(source_id, target_id, predicate_id) ==
    Obj("knowledge_edges", [source_id |-> source_id, target_id |-> target_id,
                            predicate_id |-> predicate_id, weight |-> 1,
                            ctid |-> 0])

\* generate_urn(dtype, uuid_str): urn:rhizome:<dtype>:<uuid>.
generate_urn(dtype, uuid_str) == [dtype |-> dtype, uuid |-> uuid_str]

\* The composite primary key of KnowledgeEdge.
KnowledgeEdgeConflict(r, row) ==
    /\ r.source_id = row.source_id
    /\ r.target_id = row.target_id
    /\ r.predicate_id = row.predicate_id

\* An origin_data table without the unique index on urn.
OriginDataConflictNever(r, row) == FALSE

\* unique=True of OriginData.urn.
OriginDataConflict(r, row) == r.urn = row.urn

\* Row r stands in the way of the INSERT of row into table. The
\* UniqueConstraint("parent_id", "slug", "view_type") of TreeNode never
\* rejects a row with a NULL parent_id.
RowConflict(table, r, row) ==
    CASE table = "sys_dict" -> SysDictConflict(r, row.category, row.val)
      [] table = "blob_store" -> BlobConflict(r, row.hash)
      [] table = "origin_data" -> OriginDataConflict(r, row)
      [] table = "tree_nodes" -> /\ row.parent_id # 0
                                 /\ r.parent_id = row.parent_id
                                 /\ r.slug = row.slug
                                 /\ r.view_type = row.view_type
      [] table = "knowledge_edges" -> KnowledgeEdgeConflict(r, row)
      [] OTHER -> FALSE

\* The field that tells the rows of a table apart: the autoincrement id, or
\* the row version where the table has none.
IdField(table) ==
    IF table \in {"blob_store", "knowledge_edges"} THEN "ctid" ELSE "id"

RECURSIVE FlushObjects(_, _, _)
\* The INSERTs of one flush, object by object: each takes the next id of its
\* table; a row that meets a visible row with the same key ends the flush
\* with IntegrityError, one that meets a row of another open transaction
\* waits until that transaction commits or is rolled back.
FlushObjects(s, objs, st) ==
    IF objs = <<>> \/ st.status # "ok" THEN st
    ELSE LET table == Head(objs).table
             row == [Head(objs).row EXCEPT ![IdField(table)] =
                                               IdAt(st.ids, s, table)]
         IN  IF \E r \in committed[table] \cup st.rows[table] :
                    RowConflict(table, r, row)
             THEN [st EXCEPT !.status = "IntegrityError"]
             ELSE IF \E t \in Sessions \ {s} :
                         \E r \in pending[t][table] : RowConflict(table, r, row)
             THEN [st EXCEPT !.status = "blocked"]
             ELSE FlushObjects(s, Tail(objs),
                      [st EXCEPT !.rows[table] = @ \cup {row},
                                 !.ids[table][s] = @ + 1])

\* A run that leaves the pointer of the origin alone.
PointerUpdateNone(file_data_id, revision_id) == {}

\* file_data.curr_rev_id = revision.id: an attribute change the session
\* holds until its next flush.
PointerUpdate(file_data_id, revision_id) ==
    {[id |-> file_data_id, curr_rev_id |-> revision_id]}

\* A flush that sends the INSERTs and no UPDATE.
ApplyDirtyNone(rows, dirty) == rows

\* A flush whose UPDATE writes the pointer and also rewrites the revision
\* it points at (its tags are cleared).
ApplyDirtyRewritesRevision(rows, dirty) ==
    [rows EXCEPT
        !["origin_data"] =
            {IF \E d \in dirty : d.id = r.id
             THEN [r EXCEPT !.curr_rev_id =
                                (CHOOSE d \in dirty : d.id = r.id).curr_rev_id]
             ELSE r : r \in @},
        !["revisions"] =
            {IF \E d \in dirty : d.curr_rev_id = r.id
             THEN [r EXCEPT !.tags = <<>>]
             ELSE r : r \in @}]

\* The UPDATEs of one flush: the changed curr_rev_id of each dirty origin.
ApplyDirty(rows, dirty) ==
    [rows EXCEPT !["origin_data"] =
        {IF \E d \in dirty : d.id = r.id
         THEN [r EXCEPT !.curr_rev_id = (CHOOSE d \in dirty : d.id = r.id).curr_rev_id]
         ELSE r : r \in @}]

\* What `await session.flush()` of session s does with the objects added and
\* the attributes changed since the flush before.
Flushed(s) ==
    LET st == FlushObjects(s, seed[s].new,
                  [rows |-> pending[s], ids |-> next_id, status |-> "ok"])
    IN  [st EXCEPT !.rows = ApplyDirty(st.rows, seed[s].dirty)]

\* No run: the locals of seed_repository and the state of its session.
\* `appended` is history: the (origin, revision) pairs whose revision was
\* added and whose pointer was set by this run.
NoSeed ==
    [pc |-> "idle", k |-> 0, ids |-> <<>>, urn |-> [dtype |-> "", uuid |-> 0],
     repo_data_id |-> 0, root_node_id |-> 0, files |-> <<>>, sorted_dirs |-> <<>>,
     dir_map |-> {}, j |-> 0, i |-> 0, file_count |-> 0, content |-> <<>>,
     file_data_id |-> 0, blob_hash |-> -1, new |-> <<>>, dirty |-> {},
     error |-> "", ret |-> -1, appended |-> {}]

\* The id of a bootstrapped SysDict entry (sys_github.id, dtype_file.id, ...).
IdOf(run, category, val) ==
    run.ids[CHOOSE k \in DOMAIN BootstrapPairs : BootstrapPairs[k] = <<category, val>>]

\* dir_map.get(path, root_node).id
DirMapGet(run, path) ==
    IF \E e \in run.dir_map : e.path = path
    THEN (CHOOSE e \in run.dir_map : e.path = path).id
    ELSE run.root_node_id

\* After a flush nothing is new or dirty.
Clean(run) == [run EXCEPT !.new = <<>>, !.dirty = {}]

\* The bootstrap goes on after a SysDict entry was found or created.
AfterSysDict(run, id) ==
    IF run.k < Len(BootstrapPairs)
    THEN [run EXCEPT !.ids = Append(@, id), !.k = @ + 1, !.pc = "sys_dict_select"]
    ELSE [run EXCEPT !.ids = Append(@, id), !.pc = "repo_info"]

\* _create_root_tree_node up to its flush.
CreateRootTreeNode(run, repo_data_id) ==
    [run EXCEPT !.repo_data_id = repo_data_id,
                !.new = Append(@, TreeNodeObj(0, repo_data_id, "Folder",
                                               Name("repo", ""), 0)),
                !.pc = "root_flush"]

\* The loop of _process_files from file number `from` on: files over 1 MB
\* are skipped, the content of the next one is requested, and after the last
\* file seed_repository commits.
ProcessFiles(run, from) ==
    LET todo == {n \in from..Len(run.files) : run.files[n].size <= MaxFileSize}
    IN  IF todo = {}
        THEN [run EXCEPT !.i = Len(run.files) + 1, !.pc = "commit"]
        ELSE [run EXCEPT !.i = CHOOSE n \in todo : \A m \in todo : n <= m,
                         !.pc = "file_content"]

\* The loop of _create_directory_structure from directory number j on.
CreateDirectoryStructure(run, j) ==
    IF j <= Len(run.sorted_dirs)
    THEN LET dir_path == run.sorted_dirs[j].path
             parent_path == split_path(dir_path).dir
             dir_name == split_path(dir_path).filename
         IN  [run EXCEPT !.j = j,
                         !.new = Append(@, TreeNodeObj(DirMapGet(run, parent_path),
                                                        0, "Folder", dir_name, 0)),
                         !.pc = "dir_flush"]
    ELSE ProcessFiles(run, 1)

\* file_tags of a file with extension ext.
FileTags(run, ext) ==
    IF ext = ".py" THEN <<IdOf(run, "TAG", "Python")>>
    ELSE IF ext \in {".md", ".markdown"} THEN <<IdOf(run, "TAG", "Markdown")>>
    ELSE IF ext \in {".json", ".yaml", ".yml", ".toml", ".ini", ".cfg"}
         THEN <<IdOf(run, "TAG", "Config")>>
    ELSE <<>>

\* The Revision of the file in hand is added once its blob is there.
AddRevision(run, blob_hash) ==
    [run EXCEPT !.blob_hash = blob_hash,
                !.new = Append(@, RevisionObj(
                            run.file_data_id, blob_hash,
                            FileTags(run, split_path(run.files[run.i].path).filename.ext),
                            IdOf(run, "EDITOR", "System"))),
                !.pc = "rev_flush"]

\* The ChunkNodes of a revision: one per chunk of a file whose content type
\* starts with "text/", ord = idx.
SeedChunkNodes(revision_id, content, content_type) ==
    IF content_type \in {"text/markdown", "text/x-python", "text/plain"}
    THEN LET chunks == split_into_chunks(content, max_chunk_size)
         IN  [idx \in 1..Len(chunks) |->
                 ChunkNodeObj(revision_id, chunks[idx], idx - 1)]
    ELSE <<>>

\* A step of the run of session s that sends no statement to the database.
SeedLocal(s, run) ==
    /\ seed' = [seed EXCEPT ![s] = run]
    /\ UNCHANGED <<committed, pending, sess, nops, nfetch>>
    /\ UNCHANGED ingVars
    /\ UNCHANGED pageVars

\* GitHub answers the request the run of session s is waiting for.
SeedFetched(s, run) ==
    /\ nfetch < MaxFetches
    /\ nfetch' = nfetch + 1
    /\ seed' = [seed EXCEPT ![s] = run]
    /\ UNCHANGED <<committed, pending, sess, nops>>
    /\ UNCHANGED ingVars
    /\ UNCHANGED pageVars

\* `await session.flush()` of session s succeeds and the run goes on as `run`.
SeedFlushed(s, run) ==
    /\ Flushed(s).status = "ok"
    /\ pending' = [pending EXCEPT ![s] = Flushed(s).rows]
    /\ next_id' = Flushed(s).ids
    /\ seed' = [seed EXCEPT ![s] = run]
    /\ UNCHANGED <<committed, sess, nops, nfetch>>
    /\ UNCHANGED ingVars
    /\ UNCHANGED pageVars

\* An exception handler that commits what the run has flushed so far.
SeedRaisesCommits(s, error) ==
    /\ seed' = [seed EXCEPT ![s] = [NoSeed EXCEPT !.pc = "error", !.error = error]]
    /\ committed' = [t \in Tables |-> committed[t] \cup pending[s][t]]
    /\ pending' = [pending EXCEPT ![s] = NoRows]
    /\ UNCHANGED <<next_id, sess, nops, nfetch>>
    /\ UNCHANGED ingVars
    /\ UNCHANGED pageVars

\* An exception leaves seed_repository (its locals are gone): the session is
\* closed without a commit and its transaction is rolled back.
SeedRaises(s, error) ==
    /\ seed' = [seed EXCEPT ![s] = [NoSeed EXCEPT !.pc = "error", !.error = error]]
    /\ pending' = [pending EXCEPT ![s] = NoRows]
    /\ UNCHANGED <<committed, next_id, sess, nops, nfetch>>
    /\ UNCHANGED ingVars
    /\ UNCHANGED pageVars

\* seed_repository is called; the first get_or_create_sys_dict sends its
\* select.
SeedRepository(s) ==
    /\ seed[s].pc = "idle"
    /\ UNCHANGED next_id
    /\ SeedLocal(s, [NoSeed EXCEPT !.pc = "sys_dict_select", !.k = 1])

\* The select of get_or_create_sys_dict returns: the entry is there, or it is
\* added and flush awaited.
SeedSysDictSelected(s) ==
    /\ seed[s].pc = "sys_dict_select"
    /\ UNCHANGED next_id
    /\ LET category == BootstrapPairs[seed[s].k][1]
           val == BootstrapPairs[seed[s].k][2]
           rows == {r \in Visible(s, "sys_dict") :
                       r.category = category /\ r.val = val}
       IN  IF Found(rows)
           THEN SeedLocal(s, AfterSysDict(seed[s], (CHOOSE r \in rows : TRUE).id))
           ELSE SeedLocal(s, [seed[s] EXCEPT
                                 !.new = Append(@, Obj("sys_dict",
                                            [id |-> 0, category |-> category,
                                             val |-> val])),
                                 !.pc = "sys_dict_flush"])

\* The flush of get_or_create_sys_dict returns.
SeedSysDictFlushed(s) ==
    /\ seed[s].pc = "sys_dict_flush"
    /\ SeedFlushed(s, AfterSysDict(Clean(seed[s]), NextVal(s, "sys_dict")))

\* get_repo_info returns; _create_repository_origin_data makes a URN and
\* selects the origin that has it.
SeedRepoInfoReturns(s) ==
    /\ seed[s].pc = "repo_info"
    /\ next_id' = [next_id EXCEPT !["uuid4"][s] = @ + 1]
    /\ SeedFetched(s, [seed[s] EXCEPT !.urn = generate_urn("repository",
                                                          NextVal(s, "uuid4")),
                                    !.pc = "repo_select"])

\* The select by URN returns: the repository origin is added unless found,
\* then the root TreeNode.
SeedRepoSelected(s) ==
    /\ seed[s].pc = "repo_select"
    /\ UNCHANGED next_id
    /\ LET rows == {r \in Visible(s, "origin_data") : r.urn = seed[s].urn}
       IN  IF Found(rows)
           THEN SeedLocal(s, CreateRootTreeNode(seed[s], (CHOOSE r \in rows : TRUE).id))
           ELSE SeedLocal(s, [seed[s] EXCEPT
                                 !.new = Append(@, OriginDataObj(
                                             seed[s].urn,
                                             IdOf(seed[s], "SOURCE", "GitHub"),
                                             IdOf(seed[s], "DTYPE", "Repository"),
                                             <<>>)),
                                 !.pc = "repo_flush"])

\* The flush of the repository origin returns; the root TreeNode is added.
SeedRepoFlushed(s) ==
    /\ seed[s].pc = "repo_flush"
    /\ SeedFlushed(s, CreateRootTreeNode(Clean(seed[s]), NextVal(s, "origin_data")))

\* The flush of the root TreeNode returns; the file tree is requested.
SeedRootFlushed(s) ==
    /\ seed[s].pc = "root_flush"
    /\ SeedFlushed(s, [Clean(seed[s]) EXCEPT !.root_node_id = NextVal(s, "tree_nodes"),
                                            !.pc = "file_tree"])

\* get_file_tree returns: files and directories are told apart and the
\* directory loop starts.
SeedFileTreeReturns(s, file_tree) ==
    /\ seed[s].pc = "file_tree"
    /\ UNCHANGED next_id
    /\ LET files == SelectSeq(file_tree, LAMBDA item : item.type = "blob")
           dirs == SelectSeq(file_tree, LAMBDA item : item.type = "tree")
           run == [seed[s] EXCEPT
                      !.files = files,
                      !.sorted_dirs = SortedByDepth(dirs),
                      !.dir_map = {[path |-> <<>>, id |-> seed[s].root_node_id]}]
       IN  SeedFetched(s, CreateDirectoryStructure(run, 1))

\* The flush of a directory's TreeNode returns.
SeedDirFlushed(s) ==
    /\ seed[s].pc = "dir_flush"
    /\ LET run == [Clean(seed[s]) EXCEPT
                      !.dir_map = @ \cup {[path |-> seed[s].sorted_dirs[seed[s].j].path,
                                           id |-> NextVal(s, "tree_nodes")]}]
       IN  SeedFlushed(s, CreateDirectoryStructure(run, seed[s].j + 1))

\* A loop that counts a file whose content is not available.
SeedFileContentMissingCounted(s) ==
    /\ seed[s].pc = "file_content"
    /\ UNCHANGED next_id
    /\ SeedFetched(s, ProcessFiles([seed[s] EXCEPT !.file_count = @ + 1],
                                   seed[s].i + 1))

\* get_file_content returns None: the file is skipped.
SeedFileContentMissing(s) ==
    /\ seed[s].pc = "file_content"
    /\ UNCHANGED next_id
    /\ SeedFetched(s, ProcessFiles(seed[s], seed[s].i + 1))

\* get_file_content returns the content: the file's origin is added.
SeedFileContentReturns(s, content) ==
    /\ seed[s].pc = "file_content"
    /\ next_id' = [next_id EXCEPT !["uuid4"][s] = @ + 1]
    /\ SeedFetched(s, [seed[s] EXCEPT
                        !.content = content,
                        !.file_count = @ + 1,
                        !.urn = generate_urn("file", NextVal(s, "uuid4")),
                        !.new = Append(@, OriginDataObj(
                                    generate_urn("file", NextVal(s, "uuid4")),
                                    IdOf(seed[s], "SOURCE", "GitHub"),
                                    IdOf(seed[s], "DTYPE", "File"),
                                    seed[s].files[seed[s].i].path)),
                        !.pc = "file_flush"])

\* The flush of the file's origin returns; the file's TreeNode is added.
SeedFileFlushed(s) ==
    /\ seed[s].pc = "file_flush"
    /\ LET file_path == seed[s].files[seed[s].i].path
           parent_path == split_path(file_path).dir
           filename == split_path(file_path).filename
       IN  SeedFlushed(s, [Clean(seed[s]) EXCEPT
                              !.file_data_id = NextVal(s, "origin_data"),
                              !.new = <<TreeNodeObj(DirMapGet(seed[s], parent_path),
                                                    NextVal(s, "origin_data"), "File",
                                                    filename, seed[s].file_count)>>,
                              !.pc = "node_flush"])

\* The flush of the file's TreeNode returns; create_or_get_blob sends its
\* select.
SeedNodeFlushed(s) ==
    /\ seed[s].pc = "node_flush"
    /\ SeedFlushed(s, [Clean(seed[s]) EXCEPT !.pc = "blob_select"])

\* The select of create_or_get_blob returns: the blob is there and the
\* Revision is added, or the blob is added.
SeedBlobSelected(s) ==
    /\ seed[s].pc = "blob_select"
    /\ UNCHANGED next_id
    /\ LET sha256_hash == Sha256Hex(seed[s].content)
           filename == split_path(seed[s].files[seed[s].i].path).filename
           rows == {r \in Visible(s, "blob_store") : r.hash = sha256_hash}
       IN  IF Found(rows)
           THEN SeedLocal(s, AddRevision(seed[s], sha256_hash))
           ELSE SeedLocal(s, [seed[s] EXCEPT
                                 !.new = Append(@, BlobStoreObj(
                                             seed[s].content,
                                             GetContentType(filename.ext))),
                                 !.pc = "blob_flush"])

\* The flush of create_or_get_blob returns; the Revision is added.
SeedBlobFlushed(s) ==
    /\ seed[s].pc = "blob_flush"
    /\ SeedFlushed(s, AddRevision(Clean(seed[s]), Sha256Hex(seed[s].content)))

\* The flush of the Revision returns: the origin's pointer is set, the
\* ChunkNodes and the Contains edge are added, and the loop goes on.
SeedRevisionFlushed(s) ==
    /\ seed[s].pc = "rev_flush"
    /\ LET revision_id == NextVal(s, "revisions")
           filename == split_path(seed[s].files[seed[s].i].path).filename
           run == [Clean(seed[s]) EXCEPT
                      !.dirty = PointerUpdate(seed[s].file_data_id, revision_id),
                      !.new = SeedChunkNodes(revision_id, seed[s].content,
                                             GetContentType(filename.ext))
                              \o <<KnowledgeEdgeObj(seed[s].repo_data_id,
                                                    seed[s].file_data_id,
                                                    IdOf(seed[s], "PRED", "Contains"))>>,
                      !.appended = @ \cup {[data_id |-> seed[s].file_data_id,
                                            revision_id |-> revision_id]}]
       IN  SeedFlushed(s, ProcessFiles(run, seed[s].i + 1))

\* `await session.commit()`: what is left is flushed, the transaction is
\* committed and seed_repository returns file_count.
SeedCommit(s) ==
    /\ seed[s].pc = "commit"
    /\ Flushed(s).status = "ok"
    /\ committed' = [t \in Tables |-> committed[t] \cup Flushed(s).rows[t]]
    /\ pending' = [pending EXCEPT ![s] = NoRows]
    /\ next_id' = Flushed(s).ids
    /\ seed' = [seed EXCEPT ![s] = [NoSeed EXCEPT
                                       !.pc = "done", !.ret = seed[s].file_count,
                                       !.appended = seed[s].appended]]
    /\ UNCHANGED <<sess, nops, nfetch>>
    /\ UNCHANGED ingVars
    /\ UNCHANGED pageVars

\* A request to GitHub raises (raise_for_status, timeout).
SeedFetchRaises(s) ==
    /\ seed[s].pc \in {"repo_info", "file_tree", "file_content"}
    /\ SeedRaises(s, "HTTPError")

\* A flush meets a row with the same key: IntegrityError.
SeedFlushIntegrityError(s) ==
    /\ seed[s].pc \in {"sys_dict_flush", "repo_flush", "root_flush",
                       "dir_flush", "file_flush", "node_flush",
                       "blob_flush", "rev_flush"}
    /\ Flushed(s).status = "IntegrityError"
    /\ SeedRaises(s, "IntegrityError")

NextSeed ==
    \/ \E s \in Sessions : SeedRepository(s)
    \/ \E s \in Sessions : SeedSysDictSelected(s)
    \/ \E s \in Sessions : SeedSysDictFlushed(s)
    \/ \E s \in Sessions : SeedRepoInfoReturns(s)
    \/ \E s \in Sessions : SeedRepoSelected(s)
    \/ \E s \in Sessions : SeedRepoFlushed(s)
    \/ \E s \in Sessions : SeedRootFlushed(s)
    \/ \E s \in Sessions, file_tree \in FileTrees : SeedFileTreeReturns(s, file_tree)
    \/ \E s \in Sessions : SeedDirFlushed(s)
    \/ \E s \in Sessions : SeedFileContentMissing(s)
    \/ \E s \in Sessions, content \in {<<1>>, <<2, 1>>} :
          SeedFileContentReturns(s, content)
    \/ \E s \in Sessions : SeedFileFlushed(s)
    \/ \E s \in Sessions : SeedNodeFlushed(s)
    \/ \E s \in Sessions : SeedBlobSelected(s)
    \/ \E s \in Sessions : SeedBlobFlushed(s)
    \/ \E s \in Sessions : SeedRevisionFlushed(s)
    \/ \E s \in Sessions : SeedCommit(s)
    \/ \E s \in Sessions : SeedFetchRaises(s)
    \/ \E s \in Sessions : SeedFlushIntegrityError(s)

\* The database as a seed_repository run of session 1 over a repository
\* with no files leaves it: the bootstrapped SysDict entries, the
\* repository's origin and its root TreeNode.
SeededIds ==
    [c \in Counters |-> [s \in Sessions |->
        IF s # 1 THEN 1
        ELSE IF c = "sys_dict" THEN Len(BootstrapPairs) + 1
        ELSE IF c \in {"origin_data", "tree_nodes", "uuid4"} THEN 2
        ELSE 1]]

SeededRows ==
    LET first == [c \in Counters |-> [s \in Sessions |-> 1]]
        sys_dict_id(k) == (k - 1) * NumSessions + 1
    IN  [NoRows EXCEPT
            !["sys_dict"] =
                {[id |-> sys_dict_id(k), category |-> BootstrapPairs[k][1],
                  val |-> BootstrapPairs[k][2]] : k \in DOMAIN BootstrapPairs},
            !["origin_data"] =
                {[id |-> IdAt(first, 1, "origin_data"),
                  urn |-> generate_urn("repository", IdAt(first, 1, "uuid4")),
                  src_sys_id |-> sys_dict_id(1), dtype_id |-> sys_dict_id(2),
                  path |-> <<>>, curr_rev_id |-> 0]},
            !["tree_nodes"] =
                {[id |-> IdAt(first, 1, "tree_nodes"), parent_id |-> 0,
                  data_id |-> IdAt(first, 1, "origin_data"),
                  view_type |-> "Folder", name |-> Name("repo", ""),
                  slug |-> "repo", ord |-> 0]}]

\* The id the run of session 1 on an empty database gave a SysDict entry.
BootstrapId(category, val) ==
    (CHOOSE r \in SeededRows["sys_dict"] :
         r.category = category /\ r.val = val).id

\* The database as a seed_repository run of session 1 leaves it when the
\* repository holds one small markdown file: besides the rows of SeededRows,
\* the file's origin, TreeNode, blob, Revision (the origin's current one),
\* ChunkNode and the Contains edge from the repository to the file.
StoredIds ==
    [c \in Counters |-> [s \in Sessions |->
        IF s # 1 THEN 1
        ELSE IF c = "sys_dict" THEN Len(BootstrapPairs) + 1
        ELSE IF c \in {"origin_data", "tree_nodes", "uuid4"} THEN 3
        ELSE 2]]

StoredRows ==
    LET first == [c \in Counters |-> [s \in Sessions |-> 1]]
        second == [c \in Counters |-> [s \in Sessions |-> 2]]
        content == <<1>>
        repo_data_id == IdAt(first, 1, "origin_data")
        file_data_id == IdAt(second, 1, "origin_data")
        revision_id == IdAt(first, 1, "revisions")
        file_data == OriginDataObj(generate_urn("file", IdAt(second, 1, "uuid4")),
                                   BootstrapId("SOURCE", "GitHub"),
                                   BootstrapId("DTYPE", "File"),
                                   <<Name("a", ".md")>>).row
        file_node == TreeNodeObj(IdAt(first, 1, "tree_nodes"), file_data_id,
                                 "File", Name("a", ".md"), 1).row
        blob == BlobStoreObj(content, GetContentType(".md")).row
        revision == RevisionObj(file_data_id, Sha256Hex(content),
                                <<BootstrapId("TAG", "Markdown")>>,
                                BootstrapId("EDITOR", "System")).row
        chunk == ChunkNodeObj(revision_id,
                              split_into_chunks(content, max_chunk_size)[1], 0).row
        edge == KnowledgeEdgeObj(repo_data_id, file_data_id,
                                 BootstrapId("PRED", "Contains")).row
    IN  [SeededRows EXCEPT
            !["origin_data"] = @ \cup {[file_data EXCEPT !.id = file_data_id,
                                                         !.curr_rev_id = revision_id]},
            !["tree_nodes"] = @ \cup {[file_node EXCEPT
                                          !.id = IdAt(second, 1, "tree_nodes")]},
            !["blob_store"] = {[blob EXCEPT !.ctid = IdAt(first, 1, "blob_store")]},
            !["revisions"] = {[revision EXCEPT !.id = revision_id]},
            !["chunk_nodes"] = {[chunk EXCEPT !.id = IdAt(first, 1, "chunk_nodes")]},
            !["knowledge_edges"] =
                {[edge EXCEPT !.ctid = IdAt(first, 1, "knowledge_edges")]}]

\* ------------------------------------------- the callers of the repository
\* SqlAlchemyRhizomeRepository.save up to its flush: session.add(entity).
Save(s, urn, curr_rev_id) ==
    /\ sess[s].pc = "ready"
    /\ nops < MaxOps
    /\ nops' = nops + 1
    /\ LET entity == OriginDataObj(urn, BootstrapId("SOURCE", "GitHub"),
                                   BootstrapId("DTYPE", "File"), <<>>)
       IN  sess' = [sess EXCEPT
                       ![s].op = "save", ![s].pc = "save_flush", ![s].ret = -1,
                       ![s].entity = [entity EXCEPT !.row.curr_rev_id = curr_rev_id]]
    /\ UNCHANGED <<committed, pending, next_id>>
    /\ UNCHANGED <<ingVars, seed, nfetch, pageVars>>

\* A KnowledgeEdge is made and added to the session, and flush is awaited.
LinkOrigins(s, source_id, target_id, predicate_id) ==
    /\ sess[s].pc = "ready"
    /\ nops < MaxOps
    /\ nops' = nops + 1
    /\ sess' = [sess EXCEPT
                   ![s].op = "link", ![s].pc = "link_flush", ![s].ret = -1,
                   ![s].entity = KnowledgeEdgeObj(source_id, target_id, predicate_id)]
    /\ UNCHANGED <<committed, pending, next_id>>
    /\ UNCHANGED <<ingVars, seed, nfetch, pageVars>>

\* What `await session.flush()` does with the entity session s has added.
EntityFlushed(s) ==
    FlushObjects(s, <<sess[s].entity>>,
                 [rows |-> pending[s], ids |-> next_id, status |-> "ok"])

\* The flush of save returns: the entity has its id, refresh sends its select.
SaveFlushed(s) ==
    /\ sess[s].pc = "save_flush"
    /\ EntityFlushed(s).status = "ok"
    /\ pending' = [pending EXCEPT ![s] = EntityFlushed(s).rows]
    /\ next_id' = EntityFlushed(s).ids
    /\ sess' = [sess EXCEPT ![s].pc = "save_refresh",
                            ![s].entity.row.id = NextVal(s, "origin_data")]
    /\ UNCHANGED <<committed, nops>>
    /\ UNCHANGED <<ingVars, seed, nfetch, pageVars>>

\* session.refresh(entity) returns the row as the session sees it, and save
\* returns the entity.
SaveRefreshed(s) ==
    /\ sess[s].pc = "save_refresh"
    /\ LET row == CHOOSE r \in Visible(s, "origin_data") :
                      r.id = sess[s].entity.row.id
       IN  sess' = [sess EXCEPT ![s].pc = "ready", ![s].ret = row.id,
                                ![s].entity.row = row]
    /\ UNCHANGED <<committed, pending, next_id, nops>>
    /\ UNCHANGED <<ingVars, seed, nfetch, pageVars>>

\* The flush that sends the INSERT of a linked edge returns.
LinkFlushed(s) ==
    /\ sess[s].pc = "link_flush"
    /\ EntityFlushed(s).status = "ok"
    /\ pending' = [pending EXCEPT ![s] = EntityFlushed(s).rows]
    /\ next_id' = EntityFlushed(s).ids
    /\ LET e == sess[s].entity.row
       IN  sess' = [sess EXCEPT
                       ![s].pc = "ready", ![s].ret = 0,
                       ![s].linked = @ \cup {<<e.source_id, e.target_id,
                                               e.predicate_id>>}]
    /\ UNCHANGED <<committed, nops>>
    /\ UNCHANGED <<ingVars, seed, nfetch, pageVars>>

\* The flush of the call of session s raises: the transaction is rolled back
\* and the exception leaves the call.
EntityFlushFails(s, error) ==
    /\ pending' = [pending EXCEPT ![s] = NoRows]
    /\ sess' = [sess EXCEPT ![s].pc = "error", ![s].error = error]
    /\ UNCHANGED <<committed, next_id, nops>>
    /\ UNCHANGED <<ingVars, seed, nfetch, pageVars>>

\* The INSERT of the entity meets a row with the same key: IntegrityError.
EntityFlushIntegrityError(s) ==
    /\ sess[s].pc \in {"save_flush", "link_flush"}
    /\ EntityFlushed(s).status = "IntegrityError"
    /\ EntityFlushFails(s, "IntegrityError")

\* The INSERT of session s waits for a row session t has not committed.
WaitsFor(s, t) ==
    /\ sess[s].pc \in {"save_flush", "link_flush"}
    /\ EntityFlushed(s).status = "blocked"
    /\ \E r \in pending[t][sess[s].entity.table] :
           RowConflict(sess[s].entity.table, r,
                       [sess[s].entity.row EXCEPT
                           ![IdField(sess[s].entity.table)] =
                               NextVal(s, sess[s].entity.table)])

\* Two INSERTs wait for each other's transaction: the database aborts one.
EntityFlushDeadlock(s) ==
    /\ \E t \in Sessions \ {s} : WaitsFor(s, t) /\ WaitsFor(t, s)
    /\ EntityFlushFails(s, "DeadlockDetected")

\* A traversal that follows the edges it finds one hop further when depth
\* allows it.
find_graph_neighbors_two_hops(s, node_id, predicate_filter, depth) ==
    LET hop1 == {e \in Visible(s, "knowledge_edges") : e.source_id = node_id}
        hop2 == IF depth >= 2
                THEN {e \in Visible(s, "knowledge_edges") :
                         \E h \in hop1 : e.source_id = h.target_id}
                ELSE {}
    IN  [e \in hop1 \cup hop2 |-> 1]

\* find_graph_neighbors(node_id, predicate_filter, depth) through session s:
\* one select of the edges whose source is the node, joined with sys_dict on
\* the predicate and restricted to the named predicates `if predicate_filter`
\* (None and the empty list are both falsy). The value is the returned list
\* as the number of times each edge row is in it; `depth` is not used.
find_graph_neighbors(s, node_id, predicate_filter, depth) ==
    LET edges == {e \in Visible(s, "knowledge_edges") : e.source_id = node_id}
        names == predicate_filter.names
        joined == {p \in edges \X Visible(s, "sys_dict") :
                      /\ p[2].id = p[1].predicate_id
                      /\ \E i \in DOMAIN names : names[i] = p[2].val}
    IN  IF ~predicate_filter.none /\ names # <<>>
        THEN [e \in {p[1] : p \in joined} |->
                 Cardinality({p \in joined : p[1] = e})]
        ELSE [e \in edges |-> 1]

\* The origins of the stored database: the repository and its file.
GraphNodes == {o.id : o \in StoredRows["origin_data"]}

RepoNode == CHOOSE n \in GraphNodes : \A m \in GraphNodes : n <= m

FileNode == CHOOSE n \in GraphNodes : n # RepoNode

\* Edges callers may have linked between them: the stored Contains edge, its
\* reverse (a cycle), a self-loop, a second edge between the same origins
\* under another predicate, and a self-loop of the file.
GraphEdges ==
    << <<RepoNode, FileNode, "Contains">>,
       <<FileNode, RepoNode, "Contains">>,
       <<RepoNode, RepoNode, "Depends_On">>,
       <<RepoNode, FileNode, "Depends_On">>,
       <<FileNode, FileNode, "Related_To">> >>

\* A caller awaits find_graph_neighbors on session s and gets its list.
FindGraphNeighbors(s, node_id, predicate_filter, depth) ==
    /\ sess[s].pc = "ready"
    /\ nops < MaxQueries
    /\ nops' = nops + 1
    /\ sess' = [sess EXCEPT
                   ![s].op = "neighbors",
                   ![s].query =
                       [node_id |-> node_id,
                        predicate_filter |-> predicate_filter,
                        depth |-> depth,
                        result |-> find_graph_neighbors(s, node_id,
                                                        predicate_filter, depth)]]
    /\ UNCHANGED <<committed, pending, next_id, seed, nfetch>>
    /\ UNCHANGED ingVars
    /\ UNCHANGED pageVars

NextGraph ==
    \E s \in Sessions, node_id \in GraphNodes,
       \* none, the empty list, one name, two names, and a name no SysDict
       \* entry has
       predicate_filter \in {NoFilter, PredicateFilter(<<>>),
                             PredicateFilter(<<"Contains">>),
                             PredicateFilter(<<"Depends_On", "Related_To">>),
                             PredicateFilter(<<"Cites">>)},
       depth \in 0..MaxDepth :
        FindGraphNeighbors(s, node_id, predicate_filter, depth)

\* --------------------------------------------------- deletion in the schema
\* DELETE of the OriginData row `id`, committed, under the foreign keys the
\* entities declare: revisions.data_id, chunk_nodes.revision_id and
\* knowledge_edges.source_id / target_id are ON DELETE CASCADE,
\* tree_nodes.data_id is ON DELETE SET NULL, and origin_data.curr_rev_id has
\* no ondelete: a row left behind that names a deleted revision makes the
\* statement fail (IntegrityError) and nothing is deleted.
DeleteOriginData(s, id) ==
    /\ sess[s].pc = "ready"
    /\ \E o \in committed["origin_data"] : o.id = id
    /\ LET revs == {r.id : r \in {x \in committed["revisions"] : x.data_id = id}}
           restricted == \E o \in committed["origin_data"] :
                             o.id # id /\ o.curr_rev_id \in revs
       IN  /\ sess' = [sess EXCEPT ![s] =
                          [Ready EXCEPT !.op = "delete_origin_data", !.ret = id,
                                        !.error = IF restricted
                                                  THEN "IntegrityError" ELSE ""]]
           /\ committed' =
                  IF restricted THEN committed
                  ELSE [committed EXCEPT
                          !["origin_data"] = {o \in @ : o.id # id},
                          !["revisions"] = {r \in @ : r.data_id # id},
                          !["chunk_nodes"] = {c \in @ : c.revision_id \notin revs},
                          !["knowledge_edges"] =
                              {e \in @ : e.source_id # id /\ e.target_id # id},
                          !["tree_nodes"] =
                              {IF n.data_id = id THEN [n EXCEPT !.data_id = 0]
                               ELSE n : n \in @}]
    /\ UNCHANGED <<pending, next_id, nops, seed, nfetch>>
    /\ UNCHANGED ingVars
    /\ UNCHANGED pageVars

\* DELETE of the Revision row `id`, committed: chunk_nodes.revision_id is ON
\* DELETE CASCADE; origin_data.curr_rev_id has no ondelete, so the statement
\* fails while an origin names the revision as its current one.
DeleteRevision(s, id) ==
    /\ sess[s].pc = "ready"
    /\ \E r \in committed["revisions"] : r.id = id
    /\ LET restricted == \E o \in committed["origin_data"] : o.curr_rev_id = id
       IN  /\ sess' = [sess EXCEPT ![s] =
                          [Ready EXCEPT !.op = "delete_revision", !.ret = id,
                                        !.error = IF restricted
                                                  THEN "IntegrityError" ELSE ""]]
           /\ committed' =
                  IF restricted THEN committed
                  ELSE [committed EXCEPT
                          !["revisions"] = {r \in @ : r.id # id},
                          !["chunk_nodes"] = {c \in @ : c.revision_id # id}]
    /\ UNCHANGED <<pending, next_id, nops, seed, nfetch>>
    /\ UNCHANGED ingVars
    /\ UNCHANGED pageVars

NextDelete ==
    \/ \E s \in Sessions, o \in committed["origin_data"] :
          DeleteOriginData(s, o.id)
    \/ \E s \in Sessions, r \in committed["revisions"] :
          DeleteRevision(s, r.id)

NextRepository ==
    \* The OriginData entities callers hand to save: new (transient) objects
    \* whose URN is the stored file's or an external record's, and whose
    \* curr_rev_id is NULL or the id of a stored Revision.
    \/ \E s \in Sessions,
          urn \in {r.urn : r \in {o \in StoredRows["origin_data"] :
                                     o.curr_rev_id # 0}}
                  \cup {generate_urn("record", 1)},
          curr_rev_id \in {0} \cup {r.id : r \in StoredRows["revisions"]} :
          Save(s, urn, curr_rev_id)
    \* The (source, target, predicate) triples callers link: the edge the
    \* store holds and its reverse.
    \/ \E s \in Sessions,
          triple \in {<<e.source_id, e.target_id, e.predicate_id>> :
                         e \in StoredRows["knowledge_edges"]}
                     \cup {<<e.target_id, e.source_id, e.predicate_id>> :
                              e \in StoredRows["knowledge_edges"]} :
          LinkOrigins(s, triple[1], triple[2], triple[3])
    \/ \E s \in Sessions : SaveFlushed(s)
    \/ \E s \in Sessions : SaveRefreshed(s)
    \/ \E s \in Sessions : LinkFlushed(s)
    \/ \E s \in Sessions : EntityFlushIntegrityError(s)
    \/ \E s \in Sessions : EntityFlushDeadlock(s)
    \/ \E s \in Sessions : Commit(s)
    \/ \E s \in Sessions : Rollback(s)

InitStore ==
    /\ committed = NoRows
    /\ pending = [s \in Sessions |-> NoRows]
    /\ next_id = [c \in Counters |-> [s \in Sessions |-> 1]]
    /\ sess = [s \in Sessions |-> Ready]
    /\ nops = 0
    /\ seed = [s \in Sessions |-> NoSeed]
    /\ nfetch = 0

NextStore ==
    \/ \E s \in Sessions, pair \in {<<"SOURCE", "GitHub">>, <<"DTYPE", "File">>} :
          GetOrCreateSysDict(s, pair[1], pair[2])
    \/ \E s \in Sessions, content \in {<<1>>}, content_type \in {"text/markdown", "text/plain"} :
          CreateOrGetBlob(s, content, content_type)
    \/ \E s \in Sessions : FlushInserts(s)
    \/ \E s \in Sessions : FlushIntegrityError(s)
    \/ \E s \in Sessions : FlushDeadlock(s)
    \/ \E s \in Sessions : Commit(s)
    \/ \E s \in Sessions : Rollback(s)

\* ------------------------------- GitHubService.scan and OutlineService
\* The Anchors and VirtualPages of the scanned repository live in their own
\* two tables. One scan call uses one AsyncSession for all its process_item
\* tasks: `scan.new` holds the objects added to it and not committed yet,
\* `scan.dirty` the origin_id changes made to loaded Anchors and not committed
\* yet. The id (uuid4) of an object is the pair of the number of the scan
\* and the path of the item it was made for; <<0, "">> is no object's id. An
\* outline_document_id of 0 is NULL, a content_description of "" is None.

\* find_anchor_by_locator without its WHERE clause matching anything.
ExistingAnchorNever(locator) == {}

\* find_anchor_by_locator: the Anchors the select returns for a locator.
ExistingAnchor(locator) == {a \in anchors : a.locator = locator}

\* An exception leaves process_item for item i: asyncio.gather hands it to
\* scan, which catches HTTPStatusError only, so it leaves scan too and get_db
\* rolls the session back. The sibling tasks are not cancelled.
ScanRaises(i) ==
    [scan EXCEPT !.status = "raised", !.task[i].pc = "raised",
                 !.new = {}, !.dirty = {}]

\* scan is called once the tasks of the call before have ended. ok: the
\* Contents API lists the root. shas: the sha GitHub reports for each item.
Scan(shas, ok) ==
    /\ scan.n < MaxScans
    /\ outline.pc = "idle"
    /\ \A i \in Items : scan.task[i].pc \in {"none", "done", "raised"}
    /\ scan' = [scan EXCEPT
                   !.n = @ + 1,
                   !.status = IF ok THEN "running" ELSE "error",
                   !.task = [i \in Items |->
                                [pc |-> IF ok /\ i.dir = "" THEN "find" ELSE "none",
                                 sha |-> shas[i], anchor_id |-> <<0, "">>]],
                   !.new = {}, !.dirty = {}]
    /\ UNCHANGED <<split, anchors, virtual_pages, outline>>
    /\ UNCHANGED ingVars
    /\ UNCHANGED storeVars

\* process_item from its start to its first await that follows the select of
\* find_anchor_by_locator: it returns (unchanged sha), or sets origin_id and
\* awaits commit (changed sha), or adds the new Anchor and awaits commit.
\* ok = FALSE: the select raises (outside the try).
FindAnchorByLocator(i, ok) ==
    /\ scan.task[i].pc = "find"
    /\ LET existing == ExistingAnchor(i.path)
           item_sha == scan.task[i].sha
       IN  scan' =
             IF ~ok THEN ScanRaises(i)
             ELSE IF existing # {}
             THEN LET existing_anchor == CHOOSE a \in existing : TRUE
                  IN  IF existing_anchor.origin_id = item_sha
                      THEN [scan EXCEPT !.task[i].pc = "done"]
                      ELSE [scan EXCEPT
                               !.dirty = @ \cup {[id |-> existing_anchor.id,
                                                  origin_id |-> item_sha]},
                               !.task[i].pc = "update_commit"]
             ELSE [scan EXCEPT
                      !.new = @ \cup {[table |-> "anchors",
                                       id |-> <<scan.n, i.path>>,
                                       locator |-> i.path,
                                       origin_id |-> item_sha]},
                      !.task[i] = [@ EXCEPT !.pc = "anchor_commit",
                                            !.anchor_id = <<scan.n, i.path>>]]
    /\ UNCHANGED <<split, anchors, virtual_pages, outline>>
    /\ UNCHANGED ingVars
    /\ UNCHANGED storeVars

\* The commit item i's task awaits returns (ok) or raises. A commit writes
\* and commits everything the session holds, whichever task added it. After
\* the commit of create_anchor or create_virtual_page comes the refresh of the
\* object added, which raises when a rollback has removed the object from the
\* session; after create_anchor the task goes on to the README fetch or adds
\* the VirtualPage and awaits the next commit.
DbCommit(i, ok) ==
    /\ scan.task[i].pc \in {"update_commit", "anchor_commit", "page_commit"}
    /\ LET pc == scan.task[i].pc
           mine == {o \in scan.new :
                       IF pc = "anchor_commit"
                       THEN o.table = "anchors" /\ o.id = scan.task[i].anchor_id
                       ELSE o.table = "virtual_pages"
                            /\ o.anchor_id = scan.task[i].anchor_id}
           readme == /\ i.type = "file"
                     /\ i.name \in {"README.md", "readme.md", "Readme.md"}
           page == [table |-> "virtual_pages", id |-> <<scan.n, i.path>>,
                    anchor_id |-> scan.task[i].anchor_id, title |-> i.name,
                    content_description |-> "", outline_document_id |-> 0]
           row(o) == IF o.table = "anchors"
                     THEN [id |-> o.id, locator |-> o.locator,
                           origin_id |-> o.origin_id]
                     ELSE [id |-> o.id, anchor_id |-> o.anchor_id,
                           title |-> o.title,
                           content_description |-> o.content_description,
                           outline_document_id |-> o.outline_document_id]
           updated(a) == IF \E d \in scan.dirty : d.id = a.id
                         THEN [a EXCEPT !.origin_id =
                                  (CHOOSE d \in scan.dirty : d.id = a.id).origin_id]
                         ELSE a
       IN  IF ~ok
           THEN /\ scan' = IF pc = "update_commit" THEN ScanRaises(i)
                           ELSE [scan EXCEPT !.task[i].pc = "rollback"]
                /\ UNCHANGED <<anchors, virtual_pages>>
           ELSE /\ anchors' = {updated(a) : a \in anchors}
                      \cup {row(o) : o \in {n \in scan.new : n.table = "anchors"}}
                /\ virtual_pages' = virtual_pages
                      \cup {row(o) : o \in {n \in scan.new : n.table = "virtual_pages"}}
                /\ scan' =
                     IF pc = "update_commit"
                     THEN [scan EXCEPT !.new = {}, !.dirty = {},
                                       !.task[i].pc = "step7"]
                     ELSE IF mine = {}
                     THEN [scan EXCEPT !.new = {}, !.dirty = {},
                                       !.task[i].pc = "rollback"]
                     ELSE IF pc = "page_commit"
                     THEN [scan EXCEPT !.new = {}, !.dirty = {},
                                       !.task[i].pc = "step7"]
                     ELSE IF readme
                     THEN [scan EXCEPT !.new = {}, !.dirty = {},
                                       !.task[i].pc = "fetch_readme"]
                     ELSE [scan EXCEPT !.new = {page}, !.dirty = {},
                                       !.task[i].pc = "page_commit"]
    /\ UNCHANGED <<split, outline>>
    /\ UNCHANGED ingVars
    /\ UNCHANGED storeVars

\* _fetch_file_content returns the README's text, or None when the request
\* failed; the task adds the VirtualPage and awaits its commit.
FetchFileContent(i, description) ==
    /\ scan.task[i].pc = "fetch_readme"
    /\ scan' = [scan EXCEPT
                   !.new = @ \cup {[table |-> "virtual_pages",
                                    id |-> <<scan.n, i.path>>,
                                    anchor_id |-> scan.task[i].anchor_id,
                                    title |-> i.name,
                                    content_description |-> description,
                                    outline_document_id |-> 0]},
                   !.task[i].pc = "page_commit"]
    /\ UNCHANGED <<split, anchors, virtual_pages, outline>>
    /\ UNCHANGED ingVars
    /\ UNCHANGED storeVars

\* The rollback of the except branch. It empties the session, whichever task
\* filled it. While a sibling's commit is in flight on the same session the
\* session is in use by two tasks at once, which SQLAlchemy does not define:
\* the rollback takes effect or raises (inside the except branch).
DbRollback(i, ok) ==
    /\ scan.task[i].pc = "rollback"
    /\ ok \/ \E j \in Items \ {i} :
                scan.task[j].pc \in {"update_commit", "anchor_commit", "page_commit"}
    /\ scan' = IF ok
               THEN [scan EXCEPT !.new = {}, !.dirty = {}, !.task[i].pc = "step7"]
               ELSE ScanRaises(i)
    /\ UNCHANGED <<split, anchors, virtual_pages, outline>>
    /\ UNCHANGED ingVars
    /\ UNCHANGED storeVars

\* Step 7 of process_item: a directory's items are listed and handed to
\* process_item; an HTTPStatusError of the listing is caught (ok = FALSE).
FetchGithubContents(i, ok) ==
    /\ scan.task[i].pc = "step7"
    /\ scan' = [scan EXCEPT
                   !.task = [j \in Items |->
                                IF j = i THEN [@[j] EXCEPT !.pc = "done"]
                                ELSE IF ok /\ i.type = "dir" /\ j.dir = i.path
                                THEN [@[j] EXCEPT !.pc = "find"]
                                ELSE @[j]]]
    /\ UNCHANGED <<split, anchors, virtual_pages, outline>>
    /\ UNCHANGED ingVars
    /\ UNCHANGED storeVars

\* publish_page up to its call of the Outline API, on a session of its own
\* while no scan is running: it raises ValueError (no such page), returns
\* the stored document id, or goes on to create the document.
PublishPage(page_id) ==
    /\ outline.pc = "idle"
    /\ outline.n < MaxPublishes
    /\ \A i \in Items : scan.task[i].pc \in {"none", "done", "raised"}
    /\ LET found == {v \in virtual_pages : v.id = page_id}
           call == [outline EXCEPT !.n = @ + 1, !.page_id = page_id,
                                   !.doc_id = 0, !.ret = 0, !.error = ""]
       IN  outline' =
             IF found = {} THEN [call EXCEPT !.error = "ValueError"]
             ELSE LET page == CHOOSE v \in found : TRUE
                  IN  IF page.outline_document_id # 0
                      THEN [call EXCEPT !.ret = page.outline_document_id]
                      ELSE [call EXCEPT !.pc = "create_document_api"]
    /\ UNCHANGED <<split, anchors, virtual_pages, scan>>
    /\ UNCHANGED ingVars
    /\ UNCHANGED storeVars

\* create_document_api returns the id of the document Outline has created
\* (ok), or raises, and publish_page raises with it.
CreateDocumentApi(ok) ==
    /\ outline.pc = "create_document_api"
    /\ outline' =
         IF ok
         THEN LET new_doc_id == Cardinality(outline.docs) + 1
              IN  [outline EXCEPT
                      !.docs = @ \cup {[id |-> new_doc_id,
                                        page_id |-> outline.page_id]},
                      !.doc_id = new_doc_id,
                      !.pc = "update_page_outline_id"]
         ELSE [outline EXCEPT !.error = "Exception", !.pc = "idle"]
    /\ UNCHANGED <<split, anchors, virtual_pages, scan>>
    /\ UNCHANGED ingVars
    /\ UNCHANGED storeVars

\* update_page_outline_id that commits nothing.
UpdatePageOutlineIdUnstored ==
    /\ outline.pc = "update_page_outline_id"
    /\ outline' = [outline EXCEPT !.ret = outline.doc_id, !.pc = "idle"]
    /\ UNCHANGED <<split, anchors, virtual_pages, scan>>
    /\ UNCHANGED ingVars
    /\ UNCHANGED storeVars

\* update_page_outline_id stores the document id on the page and commits;
\* publish_page returns the id.
UpdatePageOutlineId ==
    /\ outline.pc = "update_page_outline_id"
    /\ virtual_pages' =
         {IF v.id = outline.page_id
          THEN [v EXCEPT !.outline_document_id = outline.doc_id]
          ELSE v : v \in virtual_pages}
    /\ outline' = [outline EXCEPT !.ret = outline.doc_id, !.pc = "idle"]
    /\ UNCHANGED <<split, anchors, scan>>
    /\ UNCHANGED ingVars
    /\ UNCHANGED storeVars

\* Scans of the repository, each finding it as it was first (every sha 1) or
\* with one of its files changed (sha 2 on the file and on its directory),
\* and publish_page calls for the pages stored and for an id no page has.
NextPages ==
    \/ \E changed \in {"", "docs/README.md", "docs/guide.md"}, ok \in BOOLEAN :
          Scan([i \in Items |->
                   IF changed # "" /\ i.path \in {"docs", changed} THEN 2 ELSE 1], ok)
    \/ \E i \in Items, ok \in BOOLEAN : FindAnchorByLocator(i, ok)
    \/ \E i \in Items, ok \in BOOLEAN : DbCommit(i, ok)
    \/ \E i \in Items, description \in {"", "text"} : FetchFileContent(i, description)
    \/ \E i \in Items, ok \in BOOLEAN : DbRollback(i, ok)
    \/ \E i \in Items, ok \in BOOLEAN : FetchGithubContents(i, ok)
    \/ \E page_id \in {v.id : v \in virtual_pages} \cup {<<0, "">>} :
          PublishPage(page_id)
    \/ \E ok \in BOOLEAN : CreateDocumentApi(ok)
    \/ UpdatePageOutlineId

\* ---------------------------------------------------------- specifications
\* One ingest_document call on an empty session.
Init == InitIngest(1) /\ InitStore

Next == NextIngest

Spec == Init /\ [][Next]_vars

\* The same call on an event loop that keeps running what can run, where
\* every summarizer and embedder call and every pause ends: it returns or
\* raises. Every step moves a task or the call forward, so weak fairness of
\* the steps together is enough for each of them to get its turn.
SpecFair == Init /\ [][Next]_vars /\ WF_vars(PipelineStep)

\* ingest_document called again and again by one caller, each call after the
\* tasks of the call before have finished (the tasks of a call that raised run
\* on, but share nothing with a later call: each call has its own semaphore).
InitReingest == InitIngest(MaxCalls) /\ InitStore

SpecReingest == InitReingest /\ [][Next]_vars

\* Sessions calling get_or_create_sys_dict and create_or_get_blob side by
\* side, each in its own transaction.
InitStoreOnly == InitIngest(0) /\ InitStore

SpecStore == InitStoreOnly /\ [][NextStore]_vars

\* seed_repository runs, one per session, side by side, on an empty database
\* or on one an earlier run has bootstrapped.
InitSeeded ==
    /\ committed = SeededRows
    /\ pending = [s \in Sessions |-> NoRows]
    /\ next_id = SeededIds
    /\ sess = [s \in Sessions |-> Ready]
    /\ nops = 0
    /\ seed = [s \in Sessions |-> NoSeed]
    /\ nfetch = 0

InitSeed == InitIngest(0) /\ (InitStore \/ InitSeeded)

SpecSeed == InitSeed /\ [][NextSeed]_vars

\* Sessions calling save and linking origins side by side, each in its own
\* transaction, on the database a seeding run over a one-file repository
\* has left.
InitStored ==
    /\ committed = StoredRows
    /\ pending = [s \in Sessions |-> NoRows]
    /\ next_id = StoredIds
    /\ sess = [s \in Sessions |-> Ready]
    /\ nops = 0
    /\ seed = [s \in Sessions |-> NoSeed]
    /\ nfetch = 0

\* find_graph_neighbors asked on the stored database after callers have
\* linked its origins in one of the possible ways.
InitGraph ==
    /\ InitIngest(0)
    /\ \E g \in SUBSET DOMAIN GraphEdges :
           committed = [StoredRows EXCEPT !["knowledge_edges"] =
               {[KnowledgeEdgeObj(GraphEdges[k][1], GraphEdges[k][2],
                                  BootstrapId("PRED", GraphEdges[k][3])).row
                    EXCEPT !.ctid = k] : k \in g}]
    /\ pending = [s \in Sessions |-> NoRows]
    /\ next_id = StoredIds
    /\ sess = [s \in Sessions |-> Ready]
    /\ nops = 0
    /\ seed = [s \in Sessions |-> NoSeed]
    /\ nfetch = 0

SpecGraph == InitGraph /\ [][NextGraph]_vars

\* split_into_chunks called once, on any content and size.
SpecChunks == InitStoreOnly /\ [][NextChunks]_vars

\* Rows deleted from the stored database, whatever edges callers have linked.
SpecDelete == InitGraph /\ [][NextDelete]_vars

\* Scans of one repository, one after the other, and publish_page calls
\* between them, on empty anchors and virtual_pages tables.
SpecPages == InitStoreOnly /\ [][NextPages]_vars

InitRepository == InitIngest(0) /\ InitStored

SpecRepository == InitRepository /\ [][NextRepository]_vars

\* -------------------------------------------------------------- properties
StagedBy(call) == {i \in DOMAIN session : session[i].call = call}

FailedTasks == {t \in DOMAIN tasks : tasks[t].pc = "failed"}

\* C1: at most max_concurrency chunk tasks are inside the gate, hence at most
\* that many summarizer/embedder calls are in flight, in every reachable
\* state, also after a task has failed.
C1_GateBounded ==
    /\ Cardinality({t \in DOMAIN tasks : InGate(t)}) <= ing.max_concurrency
    /\ Cardinality({t \in DOMAIN tasks : tasks[t].pc \in {"summarize", "embed"}}) <= ing.max_concurrency

\* The gate is full, a task is kept waiting at it, and a task has failed.
C1_Witness ==
    /\ Cardinality({t \in DOMAIN tasks : InGate(t)}) = ing.max_concurrency
    /\ \E t \in DOMAIN tasks : tasks[t].pc = "acquire"
    /\ FailedTasks # {}

\* C2: when all chunk tasks succeed, the list ingest_document returns and
\* stages holds the input chunks' records in ascending ord, whatever the
\* order in which the tasks completed.
C2_ReturnedInOrdOrder ==
    ing.pc = "returned" =>
        /\ Len(ing.result) = Len(ing.chunks)
        /\ \A i, j \in DOMAIN ing.result :
               i < j => ing.result[i].ord < ing.result[j].ord
        /\ \A c \in DOMAIN ing.chunks : \E i \in DOMAIN ing.result :
               /\ ing.result[i].ord = ing.chunks[c].ord
               /\ ing.result[i].chunk_type = ing.chunks[c].chunk_type
               /\ ing.result[i].chunk_hash = Sha256Hex(ing.chunks[c].content)
        /\ Len(session) >= Len(ing.result)
        /\ SubSeq(session, Len(session) - Len(ing.result) + 1, Len(session))
               = ing.result

\* A call of several chunks returned although a task of higher ord had
\* finished before one of lower ord.
C2_Witness ==
    /\ ing.pc = "returned"
    /\ Len(ing.result) >= 2
    /\ late

\* C3: the ChunkNodes staged for one revision have unique and contiguous ord
\* values, 0..K-1 in staging order, after any number of ingest_document calls
\* for that revision.
C3_OrdsUniqueAndContiguous ==
    \A r \in {1, 2} :
        LET of_r == SelectSeq(session, LAMBDA n : n.revision_id = r)
        IN  \A i \in DOMAIN of_r : of_r[i].ord = i - 1

\* C4: once a chunk task of a call has failed the call never returns, it
\* raises the error of a failed task, and no ChunkNode of that call is staged,
\* whatever the other tasks return and whenever they finish.
C4_FailFastNoPartialCommit ==
    /\ FailedTasks # {} =>
           /\ ing.pc \in {"annotate", "raised"}
           /\ StagedBy(ncalls) = {}
    /\ ing.pc = "raised" =>
           /\ StagedBy(ncalls) = {}
           /\ ing.result = <<>>
           /\ FailedTasks # {} =>
                  \E t \in FailedTasks : tasks[t].error = ing.error

\* The call has raised, every task has finished, one of them failed and
\* another returned its result.
C4_Witness ==
    /\ ing.pc = "raised"
    /\ \A t \in DOMAIN tasks : Finished(t)
    /\ FailedTasks # {}
    /\ \E t \in DOMAIN tasks : tasks[t].pc = "done"

\* C5: with a target dimension configured, a chunk whose embedding has
\* another length fails its task with EmbeddingDimensionMismatch after a
\* single embedder call, the vector is kept as returned, the call never
\* returns and stages nothing, and the call raises that error when the
\* mismatch is the first failure.
C5_DimensionMismatchIsFatal ==
    /\ \A t \in DOMAIN tasks :
           (/\ ing.target_dimension # 0
            /\ tasks[t].embedding # -1
            /\ tasks[t].embedding # ing.target_dimension) =>
               /\ tasks[t].pc = "failed"
               /\ tasks[t].error = "EmbeddingDimensionMismatch"
               /\ tasks[t].embedding = WrongDimension
               /\ tasks[t].embed_calls = 1
               /\ ing.pc \in {"annotate", "raised"}
               /\ StagedBy(ncalls) = {}
    /\ (ing.pc = "raised" /\ gather = "EmbeddingDimensionMismatch") =>
           ing.error = "EmbeddingDimensionMismatch"
    /\ ing.target_dimension # 0 =>
           \A i \in StagedBy(ncalls) : session[i].embedding = ing.target_dimension

\* The call raised EmbeddingDimensionMismatch although another chunk's
\* embedding had the right length.
C5_Witness ==
    /\ ing.pc = "raised"
    /\ ing.error = "EmbeddingDimensionMismatch"
    /\ \E t \in DOMAIN tasks : tasks[t].pc = "done"
    /\ \E t \in DOMAIN tasks :
           tasks[t].pc = "failed" /\ tasks[t].embedding = WrongDimension

AllRows(table) == committed[table] \cup UNION {pending[s][table] : s \in Sessions}

\* The call `op` of session s has returned a value.
Returned(s, op) == sess[s].op = op /\ sess[s].pc = "ready" /\ sess[s].ret # -1

\* C6: create_or_get_blob returns the SHA-256 of the content, the same for
\* equal contents, and whatever the interleaving of the callers' selects,
\* inserts and commits the blob store never holds two rows for one hash; a
\* caller that got the hash sees exactly one row for it, with that content.
C6_OneBlobRowPerHash ==
    /\ \A r1, r2 \in AllRows("blob_store") : r1.hash = r2.hash => r1 = r2
    /\ \A s \in Sessions : Returned(s, "blob") =>
           /\ sess[s].ret = Sha256Hex(sess[s].content)
           /\ \A t \in Sessions :
                  (Returned(t, "blob") /\ sess[t].content = sess[s].content)
                      => sess[t].ret = sess[s].ret
           /\ sess[s].hist # {} =>
                  /\ Cardinality({r \in Visible(s, "blob_store") :
                                     r.hash = sess[s].ret}) = 1
                  /\ \A r \in Visible(s, "blob_store") :
                         r.hash = sess[s].ret => r.body = sess[s].content

\* Two callers raced for one hash (both found no row, both sent the INSERT),
\* one of them got the hash back and committed.
C6_Witness ==
    \E s, t \in Sessions :
        /\ s # t
        /\ Returned(s, "blob")
        /\ sess[t].op = "blob" /\ sess[t].pc = "error"
        /\ sess[t].content = sess[s].content
        /\ \E r \in committed["blob_store"] : r.hash = sess[s].ret

\* C7: when two callers race create_or_get_blob for one hash the duplicate
\* insert is absorbed: no caller of create_or_get_blob gets an IntegrityError.
C7_DuplicateBlobInsertAbsorbed ==
    \A s \in Sessions :
        sess[s].op = "blob" => sess[s].error # "IntegrityError"

\* C8: for every (category, val) requested by concurrent
\* get_or_create_sys_dict callers there is at most one row, every caller that
\* returned holds the id of that row, and no caller fails.
C8_OneSysDictRowNoFailure ==
    /\ \A r1, r2 \in AllRows("sys_dict") :
           (r1.category = r2.category /\ r1.val = r2.val) => r1 = r2
    /\ \A s \in Sessions : sess[s].op = "sys_dict" => sess[s].pc # "error"

\* C9: a call of get_or_create_sys_dict or create_or_get_blob for a key the
\* same caller already got an answer for returns at once with the same id or
\* hash and changes no row, committed or pending, nor the id sequence; and no
\* step changes a stored blob row, whatever content type a later call passes.
C9_SecondCallIdempotent ==
    [][/\ \A s \in Sessions :
              (nops' = nops + 1 /\ sess'[s] # sess[s]) =>
                  \A h \in sess[s].hist :
                      h.key = CallKey(sess'[s]) =>
                          /\ sess'[s].pc = "ready"
                          /\ sess'[s].ret = h.ret
                          /\ committed' = committed
                          /\ pending' = pending
                          /\ next_id' = next_id
       /\ \A r1 \in AllRows("blob_store") : \A r2 \in AllRows("blob_store")' :
              r1.ctid = r2.ctid => r1 = r2
      ]_vars

\* One caller called get_or_create_sys_dict a second time for the same pair
\* and another called create_or_get_blob a second time for the same content
\* with a content type other than the stored one; both calls have returned.
C9_Witness ==
    \E s, t \in Sessions :
        /\ Returned(s, "sys_dict") /\ sess[s].again
        /\ Returned(t, "blob") /\ sess[t].again
        /\ \E r \in Visible(t, "blob_store") :
               r.hash = sess[t].ret /\ r.content_type # sess[t].content_type

\* C10: once the append-revision step of a seeding run has returned (the
\* Revision flushed with data_id = the origin's id, then curr_rev_id set), and
\* as long as the run has not failed, a read of the origin through the run's
\* session shows curr_rev_id = the id of that revision, which is not null and
\* is the newest revision of the origin; once the run has committed, the
\* committed row every session reads shows the same. A read of origin o
\* through session s shows the attribute of the loaded object when it was
\* changed and not flushed yet, else the column of the row the session sees,
\* and -1 when there is no row.
C10_PointerAtNewRevision ==
    LET RevisionsOf(rows, o) == {r.id : r \in {x \in rows : x.data_id = o}}
        CurrRevRead(s, o) ==
            IF \E d \in seed[s].dirty : d.id = o
            THEN (CHOOSE d \in seed[s].dirty : d.id = o).curr_rev_id
            ELSE LET rows == {r \in Visible(s, "origin_data") : r.id = o}
                 IN  IF rows = {} THEN -1
                     ELSE (CHOOSE r \in rows : TRUE).curr_rev_id
    IN
    \A s \in Sessions : seed[s].pc # "error" =>
        \A a \in seed[s].appended :
            /\ a.revision_id # 0
            /\ \E r \in Visible(s, "revisions") :
                   r.id = a.revision_id /\ r.data_id = a.data_id
            /\ \A id \in RevisionsOf(Visible(s, "revisions"), a.data_id) :
                   id <= a.revision_id
            /\ CurrRevRead(s, a.data_id) = a.revision_id
            /\ seed[s].pc = "done" =>
                   \E o \in committed["origin_data"] :
                       o.id = a.data_id /\ o.curr_rev_id = a.revision_id

\* A run that appended revisions has committed while another run holds a
\* pointer it has set and not flushed yet.
C10_Witness ==
    \E s, t \in Sessions :
        /\ seed[s].pc = "done" /\ seed[s].appended # {}
        /\ seed[t].pc \notin {"done", "error"} /\ seed[t].dirty # {}

\* C11: the insert of a revision and the update of its origin's curr_rev_id
\* reach the committed state together: no committed origin points at a
\* revision that is not committed, and every committed revision has a
\* committed owner whose curr_rev_id is set to a committed revision of that
\* owner, the revision itself where it is the owner's newest.
C11_RevisionAndPointerCommitTogether ==
    LET RevisionsOf(o) == {r.id : r \in {x \in committed["revisions"] : x.data_id = o}}
    IN  /\ \A o \in committed["origin_data"] :
               o.curr_rev_id # 0 =>
                   \E r \in committed["revisions"] : r.id = o.curr_rev_id
        /\ \A r \in committed["revisions"] :
               \E o \in committed["origin_data"] :
                   /\ o.id = r.data_id
                   /\ o.curr_rev_id \in RevisionsOf(o.id)
                   /\ (\A id \in RevisionsOf(o.id) : id <= r.id)
                          => o.curr_rev_id = r.id

\* A committed origin points at its committed revision while another run has
\* flushed a revision, not committed, whose pointer is still to be written.
C11_Witness ==
    /\ \E o \in committed["origin_data"] : o.curr_rev_id # 0
    /\ \E t \in Sessions :
           /\ pending[t]["revisions"] # {}
           /\ \E o \in pending[t]["origin_data"] : o.curr_rev_id = 0

\* C12: in every state of the store, committed or in an open transaction,
\* every origin whose curr_rev_id is set points at a stored revision whose
\* data_id is the origin's own id.
C12_PointerReferencesOwnRevision ==
    \A o \in AllRows("origin_data") :
        o.curr_rev_id # 0 =>
            \E r \in AllRows("revisions") :
                r.id = o.curr_rev_id /\ r.data_id = o.id

\* C13: a save of an origin whose curr_rev_id points at a revision of another
\* origin is rejected before commit: its flush never succeeds, the call
\* ends with an error, and no row with such a pointer is ever stored, not
\* even in an open transaction.
C13_ForeignPointerRejected ==
    LET ForeignPointer(row) ==
            /\ row.curr_rev_id # 0
            /\ \E r \in AllRows("revisions") :
                   r.id = row.curr_rev_id /\ r.data_id # row.id
    IN  /\ \A s \in Sessions :
               (sess[s].op = "save" /\ ForeignPointer(sess[s].entity.row)) =>
                   sess[s].pc \in {"save_flush", "error"}
        /\ \A o \in AllRows("origin_data") : ~ForeignPointer(o)

C16_DegenerateInputOneChunk ==
    /\ (ing.pc # "idle" /\ Len(ing.raw_text) <= 1) => Len(ing.chunks) = 1
    /\ \A content \in {<<0>>, <<3>>} : Len(split_into_chunks(content, max_chunk_size)) = 1

\* The macro summary the chunks of the call are summarized under: the one
\* stored with the revision, else the one the macro summarizer returns.
ExpectedMacroSummary ==
    IF RevisionMacroSummary(ing.revision) # ""
    THEN RevisionMacroSummary(ing.revision)
    ELSE "computed"

\* C17: with max_concurrency = 1 and an echoing summarizer and embedder, a
\* call on an empty session that returned has staged exactly one ChunkNode
\* per input chunk, in ordinal order 0..K-1, each bound to the revision's id
\* and carrying the summary of its own chunk under the macro summary, its own
\* chunk_type and the hash of its own content.
C17_OneNodePerChunkInOrder ==
    (ing.pc = "returned" /\ ing.max_concurrency = 1) =>
        /\ Len(session) = Len(ing.chunks)
        /\ ing.result = session
        /\ \A i \in DOMAIN session :
               /\ session[i].ord = i - 1
               /\ session[i].ord = ing.chunks[i].ord
               /\ session[i].revision_id = ing.revision
               /\ session[i].content_summary =
                      Summarize(ing.chunks[i].content, ExpectedMacroSummary)
               /\ session[i].chunk_type = ing.chunks[i].chunk_type
               /\ session[i].chunk_hash = Sha256Hex(ing.chunks[i].content)

\* A three-chunk document was ingested with max_concurrency = 1 and its
\* three nodes are staged.
C17_Witness ==
    /\ ing.pc = "returned"
    /\ ing.max_concurrency = 1
    /\ Len(ing.chunks) = 3
    /\ Len(session) = 3

\* C18: however many seed_repository runs have committed, the store holds at
\* most one origin for the repository and at most one per file path, and
\* exactly one for the repository once a run has committed.
C18_OneOriginPerSubject ==
    LET RepositoryOrigins ==
            {o \in committed["origin_data"] : o.urn.dtype = "repository"}
    IN  /\ Cardinality(RepositoryOrigins) <= 1
        /\ (\E s \in Sessions : seed[s].pc = "done") =>
               Cardinality(RepositoryOrigins) = 1
        /\ \A o \in committed["origin_data"] :
               o.urn.dtype = "file" =>
                   Cardinality({p \in committed["origin_data"] :
                                   p.urn.dtype = "file" /\ p.path = o.path}) = 1

\* C19: no two committed TreeNodes share (parent, slug, view_type), the root
\* nodes, whose parent is NULL, included.
C19_SiblingsUnique ==
    \A n1, n2 \in committed["tree_nodes"] :
        (/\ n1.parent_id = n2.parent_id
         /\ n1.slug = n2.slug
         /\ n1.view_type = n2.view_type) => n1 = n2

\* C20: no step of a seeding run changes a field of a stored Revision or
\* removes a committed one, and the only field of a stored origin a step
\* changes is curr_rev_id.
C20_RevisionsAppendOnly ==
    [][/\ \A r1 \in AllRows("revisions") : \A r2 \in AllRows("revisions")' :
              r1.id = r2.id => r1 = r2
       /\ committed["revisions"] \subseteq committed'["revisions"]
       /\ \A o1 \in AllRows("origin_data") : \A o2 \in AllRows("origin_data")' :
              o1.id = o2.id => [o2 EXCEPT !.curr_rev_id = o1.curr_rev_id] = o1
      ]_vars

\* A run has flushed a Revision and, with a later flush, the UPDATE of its
\* origin's pointer, and has not committed yet.
C20_Witness ==
    \E s \in Sessions :
        /\ seed[s].pc \notin {"done", "error"}
        /\ \E o \in pending[s]["origin_data"] :
               /\ o.curr_rev_id # 0
               /\ \E r \in pending[s]["revisions"] :
                      r.id = o.curr_rev_id /\ r.data_id = o.id

\* C21: the step by which a seed_repository run fails leaves the committed
\* store as it was and the run's transaction empty; the committed store
\* changes only by the commit that ends a successful run, and no committed
\* origin ever points at a revision that is not committed.
C21_FailedSeedCommitsNothing ==
    [][/\ \A s \in Sessions :
              (seed[s].pc # "error" /\ seed'[s].pc = "error") =>
                  /\ committed' = committed
                  /\ pending'[s] = NoRows
       /\ committed' # committed =>
              \E s \in Sessions : seed[s].pc = "commit" /\ seed'[s].pc = "done"
       /\ \A o \in committed'["origin_data"] :
              o.curr_rev_id # 0 =>
                  \E r \in committed'["revisions"] : r.id = o.curr_rev_id
      ]_vars

\* A run has failed after it had flushed a Revision, and no Revision is
\* committed.
C21_Witness ==
    \E s \in Sessions :
        /\ seed[s].pc = "error"
        /\ next_id["revisions"][s] > 1
        /\ committed["revisions"] = {}

\* C22: while the macro summarizer is out no chunk task exists; every chunk
\* task, from its creation on, holds the macro summary of the call (the one
\* read from the revision or the one the macro summarizer returned), and
\* that is the context of its micro summary and the head of the text it has
\* embedded.
C22_MacroSummaryBeforeChunkTasks ==
    /\ ing.pc \in {"idle", "macro"} => tasks = <<>>
    /\ \A t \in DOMAIN tasks :
           /\ tasks[t].macro_summary # ""
           /\ tasks[t].macro_summary = ExpectedMacroSummary
           /\ tasks[t].macro_summary = ing.macro_summary
           /\ tasks[t].summarize_calls > 0 =>
                  ing.pc \in {"annotate", "returned", "raised"}
           /\ tasks[t].micro_summary # NoSummary =>
                  tasks[t].micro_summary.ctx = ExpectedMacroSummary
           /\ tasks[t].text_for_embedding # <<"", NoSummary, <<>>>> =>
                  tasks[t].text_for_embedding[1] = ExpectedMacroSummary

\* The macro summarizer was called and has returned, and two chunk tasks
\* have had their micro summaries made under its result.
C22_Witness ==
    /\ ing.pc = "annotate"
    /\ RevisionMacroSummary(ing.revision) = ""
    /\ ing.macro_summary = "computed"
    /\ \E t, u \in DOMAIN tasks :
           /\ t # u
           /\ tasks[t].micro_summary # NoSummary
           /\ tasks[u].micro_summary # NoSummary

\* C23: a call for a revision without a stored macro summary has called the
\* macro summarizer exactly once; a call for a revision with one has not
\* called it, and the stored value is what every chunk task holds and what
\* every micro summary was made under.
C23_MacroSummarizerOnceOrNever ==
    ing.pc # "idle" =>
        IF RevisionMacroSummary(ing.revision) = ""
        THEN ing.macro_calls = 1
        ELSE /\ ing.macro_calls = 0
             /\ ing.pc # "macro"
             /\ ing.macro_summary = RevisionMacroSummary(ing.revision)
             /\ \A t \in DOMAIN tasks :
                    /\ tasks[t].macro_summary = RevisionMacroSummary(ing.revision)
                    /\ tasks[t].micro_summary # NoSummary =>
                           tasks[t].micro_summary.ctx =
                               RevisionMacroSummary(ing.revision)

\* A call for the revision with a stored macro summary has returned the
\* nodes of several chunks without a call to the macro summarizer.
C23_Witness ==
    /\ ing.pc = "returned"
    /\ RevisionMacroSummary(ing.revision) = "stored"
    /\ ing.macro_calls = 0
    /\ Len(tasks) >= 2
    /\ \A i \in DOMAIN session : session[i].content_summary.ctx = "stored"

\* C24: a chunk task that has called the embedder holds a permit or has
\* finished, had called the micro summarizer once before, with its chunk's
\* content under the macro summary, and has handed the embedder the macro
\* summary, that micro summary and the chunk content together with the
\* target dimension; a task returns only after its embedder call; the hash
\* of every staged node is the hash of its chunk's content, so nodes of
\* equal content carry equal hashes.
C24_TaskStepsInOrder ==
    /\ \A t \in DOMAIN tasks :
           /\ tasks[t].summarize_calls > 0 => (InGate(t) \/ Finished(t))
           /\ tasks[t].pc = "summarize" =>
                  tasks[t].embed_calls = 0 /\ tasks[t].micro_summary = NoSummary
           /\ tasks[t].embed_calls > 0 =>
                  /\ tasks[t].summarize_calls = 1
                  /\ tasks[t].micro_summary =
                         [of |-> tasks[t].chunk.content, ctx |-> ing.macro_summary]
                  /\ tasks[t].text_for_embedding =
                         <<ing.macro_summary, tasks[t].micro_summary,
                           tasks[t].chunk.content>>
                  /\ tasks[t].dimensions = ing.target_dimension
           /\ tasks[t].pc = "done" =>
                  tasks[t].embed_calls = 1 /\ tasks[t].embedding # -1
    /\ ing.pc = "annotate" =>
           semaphore + Cardinality({t \in DOMAIN tasks : InGate(t)})
               = ing.max_concurrency
    /\ ing.pc = "returned" =>
           /\ \A i \in DOMAIN ing.result :
                  ing.result[i].chunk_hash = Sha256Hex(ing.chunks[i].content)
           /\ \A i, j \in DOMAIN ing.result :
                  ing.chunks[i].content = ing.chunks[j].content <=>
                      ing.result[i].chunk_hash = ing.result[j].chunk_hash

\* A call has returned the nodes of three chunks of which two have the same
\* content.
C24_Witness ==
    /\ ing.pc = "returned"
    /\ \E i, j \in DOMAIN ing.result :
           /\ i # j
           /\ ing.chunks[i].content = ing.chunks[j].content
           /\ ing.result[i].chunk_hash = ing.result[j].chunk_hash
    /\ \E i, j \in DOMAIN ing.result :
           ing.chunks[i].content # ing.chunks[j].content

\* C25: with a rate limit configured, a task that has called the micro
\* summarizer has paused before, and a pausing task has been admitted, has
\* issued no call yet and holds its permit; without a rate limit no task
\* pauses or has paused.
C25_PauseAfterAdmission ==
    /\ \A t \in DOMAIN tasks :
           /\ tasks[t].pc = "sleep" =>
                  /\ ing.rate_limit_per_sec # 0
                  /\ tasks[t].summarize_calls = 0
                  /\ tasks[t].embed_calls = 0
                  /\ ~tasks[t].slept
           /\ tasks[t].summarize_calls > 0 =>
                  (tasks[t].slept <=> ing.rate_limit_per_sec # 0)
           /\ ing.rate_limit_per_sec = 0 =>
                  tasks[t].pc # "sleep" /\ ~tasks[t].slept
           /\ tasks[t].pc = "acquire" => ~tasks[t].slept
    /\ ing.pc = "annotate" =>
           semaphore = ing.max_concurrency
               - Cardinality({t \in DOMAIN tasks :
                                 tasks[t].pc \in {"sleep", "summarize", "embed"}})

\* With a rate limit, a pausing task holds the last permit while another
\* task waits at the gate and a third has already made its calls.
C25_Witness ==
    /\ ing.rate_limit_per_sec # 0
    /\ semaphore = 0
    /\ \E t, u, v \in DOMAIN tasks :
           /\ tasks[t].pc = "sleep"
           /\ tasks[u].pc = "acquire"
           /\ tasks[v].pc = "done" /\ tasks[v].slept

\* C26: the session changes only by the step that ends a successful
\* ingest_document call, taken when every chunk task has returned, and by
\* appending the returned list; no step of a chunk task changes it, it does
\* not change again after the call has returned, and no step of the pipeline
\* flushes or commits.
C26_SessionTouchedOnceAfterGather ==
    [][/\ session' # session =>
              /\ ing.pc = "annotate" /\ ing'.pc = "returned"
              /\ \A t \in DOMAIN tasks : tasks[t].pc = "done"
              /\ tasks' = tasks
              /\ session' = session \o ing'.result
       /\ tasks' # tasks => session' = session
       /\ (ing.pc = "annotate" /\ ing'.pc = "returned") =>
              /\ \A t \in DOMAIN tasks : tasks[t].pc = "done"
              /\ Len(ing'.result) = Len(tasks)
       /\ ing.pc \in {"returned", "raised"} => session' = session
       /\ committed' = committed /\ pending' = pending
      ]_vars

\* A call run with two permits has returned and the nodes of its three
\* chunks are in the session.
C26_Witness ==
    /\ ing.pc = "returned"
    /\ ing.max_concurrency = 2
    /\ Len(tasks) = 3
    /\ session = ing.result
    /\ Len(session) = 3

\* C27: a finished task has always made its own summarizer call (none is
\* cancelled before it); once a task has failed, every other task of the
\* call is still admitted and finishes after having made its call, and
\* nothing of the call is ever staged.
C27_OtherTasksRunOn ==
    /\ [](\A t \in DOMAIN tasks : Finished(t) => tasks[t].summarize_calls = 1)
    /\ [](FailedTasks # {} => StagedBy(ncalls) = {})
    /\ FailedTasks # {}
           ~> (/\ \A t \in DOMAIN tasks :
                      Finished(t) /\ tasks[t].summarize_calls = 1
               /\ StagedBy(ncalls) = {})

\* The call has raised; with a single permit, a task admitted after the
\* failed one has its embedder call out and another still waits at the gate.
C27_Witness ==
    /\ ing.pc = "raised"
    /\ ing.max_concurrency = 1
    /\ FailedTasks # {}
    /\ \E t, u \in DOMAIN tasks :
           /\ tasks[t].pc = "embed"
           /\ tasks[u].pc = "acquire"

C29_PipelineTerminates ==
    /\ (ing.pc \in {"macro", "annotate"})
           ~> (/\ ing.pc \in {"returned", "raised"}
               /\ \A t \in DOMAIN tasks :
                      Finished(t) /\ tasks[t].summarize_calls = 1)
    /\ []((/\ ing.pc \in {"annotate", "returned", "raised"}
           /\ ing.macro_summary # ""
           /\ \A t \in DOMAIN tasks : Finished(t))
              => semaphore = ing.max_concurrency)
    /\ [](\A t \in DOMAIN tasks :
              (tasks[t].pc = "acquire" /\ semaphore = 0) =>
                  \E u \in DOMAIN tasks : InGate(u))
    /\ [](\A t \in DOMAIN tasks :
              tasks[t].pc = "failed" => ~InGate(t))

\* A call of three chunks has raised; all its tasks have finished, some
\* failed and some returned, and every permit is free.
C29_Witness ==
    /\ ing.pc = "raised"
    /\ Len(tasks) = 3
    /\ \A t \in DOMAIN tasks : Finished(t)
    /\ Cardinality(FailedTasks) = 2
    /\ semaphore = ing.max_concurrency

C31_DeleteCascades ==
    [][\A s \in Sessions :
          sess'[s] # sess[s] =>
              LET id == sess'[s].ret
                  revs == {r.id : r \in {x \in committed["revisions"] :
                                             x.data_id = id}}
                  origins == {o.id : o \in committed'["origin_data"]}
                  revisions == {r.id : r \in committed'["revisions"]}
              IN  /\ sess'[s].op = "delete_origin_data" =>
                         /\ id \notin origins
                         /\ \A r \in committed'["revisions"] : r.data_id # id
                         /\ \A c \in committed'["chunk_nodes"] :
                                c.revision_id \notin revs
                         /\ \A e \in committed'["knowledge_edges"] :
                                e.source_id # id /\ e.target_id # id
                         /\ {n.id : n \in committed'["tree_nodes"]}
                                = {n.id : n \in committed["tree_nodes"]}
                         /\ \A n \in committed'["tree_nodes"] : n.data_id # id
                  /\ sess'[s].op = "delete_revision" =>
                         /\ committed'["revisions"] =
                                {r \in committed["revisions"] : r.id # id}
                         /\ committed'["chunk_nodes"] =
                                {c \in committed["chunk_nodes"] :
                                    c.revision_id # id}
                         /\ \A t \in Tables \ {"revisions", "chunk_nodes"} :
                                committed'[t] = committed[t]
                  /\ \A r \in committed'["revisions"] : r.data_id \in origins
                  /\ \A c \in committed'["chunk_nodes"] :
                         c.revision_id \in revisions
                  /\ \A e \in committed'["knowledge_edges"] :
                         e.source_id \in origins /\ e.target_id \in origins
                  /\ \A n \in committed'["tree_nodes"] :
                         n.data_id \in origins \cup {0}
                  /\ \A o \in committed'["origin_data"] :
                         o.curr_rev_id \in revisions \cup {0}
      ]_vars

\* C32: seed_repository returns its count of processed files; the commit of
\* a successful run adds, for that many files, one file OriginData each, and
\* for each of these one file TreeNode, one Revision, which is the origin's
\* current revision, and one edge, the 'Contains' edge from the repository's
\* origin, and no other Revision or edge; a file is counted only when its
\* content has come and it is not over 1 MB, and a file whose content is not
\* available adds nothing to the session.
C32_SeedCountsProcessedFiles ==
    [][\A s \in Sessions :
          LET run == seed[s]
              origins == {o \in committed'["origin_data"] \ committed["origin_data"] :
                             o.urn.dtype = "file"}
              nodes == {n \in committed'["tree_nodes"] \ committed["tree_nodes"] :
                           n.view_type = "File"}
              revisions == committed'["revisions"] \ committed["revisions"]
              edges == committed'["knowledge_edges"] \ committed["knowledge_edges"]
          IN  /\ (run.pc = "commit" /\ seed'[s].pc = "done") =>
                     /\ seed'[s].ret = run.file_count
                     /\ Cardinality(origins) = run.file_count
                     /\ Cardinality(nodes) = run.file_count
                     /\ Cardinality(revisions) = run.file_count
                     /\ Cardinality(edges) = run.file_count
                     /\ \A o \in origins :
                            /\ Cardinality({n \in nodes : n.data_id = o.id}) = 1
                            /\ Cardinality({r \in revisions : r.data_id = o.id}) = 1
                            /\ \E r \in revisions :
                                   r.data_id = o.id /\ o.curr_rev_id = r.id
                            /\ \E e \in edges :
                                   /\ e.source_id = run.repo_data_id
                                   /\ e.target_id = o.id
                                   /\ e.predicate_id = IdOf(run, "PRED", "Contains")
                            /\ \E n \in DOMAIN run.files :
                                   /\ run.files[n].path = o.path
                                   /\ run.files[n].size <= MaxFileSize
              /\ (seed'[s].pc \notin {"done", "error"}
                     /\ seed'[s].file_count # run.file_count) =>
                     /\ seed'[s].file_count = run.file_count + 1
                     /\ run.pc = "file_content"
                     /\ run.files[run.i].size <= MaxFileSize
                     /\ seed'[s].pc = "file_flush"
              /\ (run.pc = "file_content" /\ seed'[s] # run
                     /\ seed'[s].pc \notin {"file_flush", "error"}) =>
                     /\ seed'[s].file_count = run.file_count
                     /\ seed'[s].new = run.new
                     /\ pending'[s] = pending[s]
      ]_vars

\* A run over the tree of a file over 1 MB and two small ones has asked for
\* the content of both small files, got one, and returned 1.
C32_Witness ==
    /\ nfetch = 4
    /\ \E s \in Sessions :
           /\ seed[s].pc = "done"
           /\ seed[s].ret = 1
           /\ \A t \in Sessions \ {s} : seed[t].pc = "idle"
    /\ \A o \in committed["origin_data"] :
           o.urn.dtype = "file" => o.path \in {<<Name("a", ".md")>>,
                                               <<Name("b", ".json")>>}
    /\ Cardinality(committed["revisions"]) = 1

\* C33: every TreeNode below a root hangs under the node of its parent path:
\* its parent row is stored, the names from the root down to a file's node
\* spell the path of the file's origin, and the names down to a directory's
\* node spell the path of a directory a file tree lists, whatever the order
\* of the listing.
C33_ParentIsNodeOfParentPath ==
    LET nodes == AllRows("tree_nodes")
        RECURSIVE NodePath(_)
        NodePath(n) ==
            IF n.parent_id = 0 THEN <<>>
            ELSE NodePath(CHOOSE p \in nodes : p.id = n.parent_id) \o <<n.name>>
    IN  \A n \in nodes :
            n.parent_id # 0 =>
                /\ \E p \in nodes : p.id = n.parent_id
                /\ n.view_type = "File" =>
                       \E o \in AllRows("origin_data") :
                           o.id = n.data_id /\ o.path = NodePath(n)
                /\ n.view_type = "Folder" =>
                       \E file_tree \in FileTrees :
                           \E k \in DOMAIN file_tree :
                               /\ file_tree[k].type = "tree"
                               /\ file_tree[k].path = NodePath(n)

\* A run has committed the nodes of a tree that lists the file d/e/c.md
\* before its directory d/e and that before d: the file's node hangs under
\* the node of d/e, which hangs under the node of d.
C33_Witness ==
    \E n, e, d \in committed["tree_nodes"] :
        /\ n.view_type = "File" /\ n.parent_id = e.id
        /\ e.view_type = "Folder" /\ e.parent_id = d.id
        /\ d.view_type = "Folder" /\ d.parent_id # 0
        /\ \E s \in Sessions : seed[s].pc = "done"

\* C34: the chunks split_into_chunks returns, read in list order, hold the
\* lines of the content, each once and in the order of the content, so that
\* joining them with a newline gives the content back; and the lengths of
\* the lines of a chunk of more than one line add up to max_chunk_size at
\* most.
C34_SplitIsLosslessAndOrdered ==
    LET RECURSIVE Join(_)
        Join(chunks) ==
            IF chunks = <<>> THEN <<>>
            ELSE chunks[1].content \o Join(Tail(chunks))
        RECURSIVE Size(_)
        Size(lines) ==
            IF lines = <<>> THEN 0 ELSE LineLen(lines[1]) + Size(Tail(lines))
    IN  split.pc = "returned" =>
            /\ Join(split.chunks) = split.content
            /\ \A i \in DOMAIN split.chunks :
                   /\ split.chunks[i].content # <<>>
                   /\ Len(split.chunks[i].content) > 1 =>
                          Size(split.chunks[i].content) <= split.max_chunk_size

\* A content of three lines has been split under the default size into a
\* chunk of two lines and a chunk of one.
C34_Witness ==
    /\ split.pc = "returned"
    /\ split.max_chunk_size = max_chunk_size
    /\ Len(split.content) = 3
    /\ Len(split.chunks) = 2
    /\ Len(split.chunks[1].content) = 2

\* C35: a process_item task whose select finds the Anchor of its locator
\* with origin_id equal to the item's sha ends there and changes nothing:
\* neither table, no object added to the session, no attribute set, no
\* commit. When the stored origin_id differs, the task sets the origin_id of
\* that Anchor and of no other, adds nothing, and its commit leaves the
\* locator with the same one Anchor (same id, origin_id now the item's sha
\* unless the change was taken out of the session before the commit) and that
\* Anchor's pages as they were. No locator ever has more than one Anchor.
C35_ExistingAnchorOnlyUpdated ==
    [][\A i \in Items :
          LET existing == {a \in anchors : a.locator = i.path}
              t == scan.task[i]
              pc_after == scan'.task[i].pc
              pages(rows, ids) == {v \in rows : v.anchor_id \in ids}
          IN  /\ Cardinality({a \in anchors' : a.locator = i.path}) <= 1
              /\ (t.pc = "find" /\ pc_after \notin {"find", "raised"}
                  /\ existing # {}) =>
                     /\ anchors' = anchors
                     /\ virtual_pages' = virtual_pages
                     /\ scan'.new = scan.new
                     /\ IF \E a \in existing : a.origin_id = t.sha
                        THEN pc_after = "done" /\ scan'.dirty = scan.dirty
                        ELSE /\ pc_after = "update_commit"
                             /\ scan'.dirty = scan.dirty \cup
                                    {[id |-> a.id, origin_id |-> t.sha] :
                                        a \in existing}
              /\ (t.pc = "update_commit" /\ pc_after # "update_commit") =>
                     /\ \A a \in existing :
                            \E b \in anchors' :
                                /\ b.id = a.id
                                /\ b.locator = a.locator
                                /\ b.origin_id \in {a.origin_id, t.sha}
                                /\ (pc_after = "step7"
                                    /\ [id |-> a.id, origin_id |-> t.sha]
                                           \in scan.dirty) =>
                                       b.origin_id = t.sha
                     /\ pages(virtual_pages', {a.id : a \in existing})
                            = pages(virtual_pages, {a.id : a \in existing})
                     /\ scan'.new = {}
    ]_vars

\* The second scan has found one file changed and the other unchanged: the
\* Anchor the first scan made for the changed file carries the new sha.
C35_Witness ==
    /\ scan.n = 2
    /\ \A i \in Items : scan.task[i].pc = "done"
    /\ \E a \in anchors :
           a.locator = "docs/README.md" /\ a.id[1] = 1 /\ a.origin_id = 2
    /\ \E a \in anchors :
           a.locator = "docs/guide.md" /\ a.id[1] = 1 /\ a.origin_id = 1

\* C36: once process_item has finished for an item, the Anchor of its locator,
\* if one is committed, has a committed VirtualPage: the two are stored
\* together or not at all, in every scan.
C36_AnchorHasPage ==
    \A i \in Items :
        scan.task[i].pc = "done" =>
            \A a \in anchors :
                a.locator = i.path =>
                    \E v \in virtual_pages : v.anchor_id = a.id

\* C37: the rollback a process_item task makes after its Anchor or
\* VirtualPage failed does not end the scan, and takes nothing of a sibling
\* task out of the shared session: the objects siblings have added and the
\* origin_id changes they have made are still there for their commits.
C37_RollbackSparesSiblings ==
    [][\A i \in Items :
          (scan.task[i].pc = "rollback" /\ scan'.task[i].pc # "rollback") =>
              /\ scan'.status = scan.status
              /\ scan'.task[i].pc # "raised"
              /\ \A o \in scan.new : o.id[2] # i.path => o \in scan'.new
              /\ scan.dirty \subseteq scan'.dirty
    ]_vars

====
